---- MODULE Spec2Model ----
(***************************************************************************)
(* The repair loop of universal_debugger.py: run the target script, parse  *)
(* the traceback, patch the failing line with the first matching rule of   *)
(* ERROR_DATABASE, and run again.                                          *)
(*                                                                         *)
(* Text is modelled at token level.  A physical line of a file is a record *)
(* [ind, txt]: ind is the number of leading spaces, txt the stripped text  *)
(* as a sequence of tokens (a maximal word, or one punctuation character,  *)
(* or one space).  Every physical line ends with a newline.  A string with *)
(* embedded newlines (what a transform returns) is a sequence of physical  *)
(* lines.                                                                  *)
(***************************************************************************)
EXTENDS Integers, Sequences, FiniteSets, TLC

VARIABLES
    fs,            \* the file system: absolute path -> content (or NoFile)
    pc,            \* position of main: "start", "loop", "ran", "after", "done"
    iteration,     \* main's local `iteration`
    fixed_errors,  \* main's local `fixed_errors` (list of descriptors)
    returncode,    \* exit status of the most recent subprocess run
    stderr,        \* what run_and_capture_error returned for that run
    printed,       \* the tags of the report lines main has printed
    log,           \* history: the runs, fix_error calls and file writes so far
    orig,          \* history: content of the target file at session start
    probe          \* input and result of a direct call (SpecBlock, SpecRule)

vars == <<fs, pc, iteration, fixed_errors, returncode, stderr, printed, log, orig, probe>>

(***************************************************************************)
(* Bounds of the model.                                                    *)
(***************************************************************************)
\* main's max_iterations; the source sets 100 (line 921), the model scales it.
max_iterations == 3
\* greatest line number a modelled traceback frame names
MaxErrLine == 3
\* number of lines of the files SpecBlock draws
MaxBlockLines == 4
\* number of fragments of the failing lines SpecRule draws
MaxFragments == 3

\* Python's None, where a string is expected
None == "None_"
\* None where a line number is expected
NoLine == -1
\* the content of a path that names no file
NoFile == << [ind |-> -1, txt |-> <<>>] >>
\* the text of a stream (a sequence of lines), or None
Text(lines) == [none |-> FALSE, lines |-> lines]
NoneText == [none |-> TRUE, lines |-> <<>>]

(***************************************************************************)
(* Lines and strings.                                                      *)
(***************************************************************************)
Line(ind, txt) == [ind |-> ind, txt |-> txt]

\* the string '' followed by a newline
EmptyLine == Line(0, <<>>)

\* line.strip() == ''
IsBlank(line) == line.txt = <<>>

\* len(line) - len(line.lstrip()): lstrip() of a whitespace-only line also
\* strips its newline, so the newline is counted.
LeadingWidth(line) == IF IsBlank(line) THEN line.ind + 1 ELSE line.ind

\* get_indent(line), as a number of spaces
get_indent(line) == LeadingWidth(line)

\* line.rstrip(): a whitespace-only line becomes ''
rstrip(line) == IF IsBlank(line) THEN EmptyLine ELSE line

NonWord == {" ", "[", "]", "'", "\"", "(", ")", ":", ",", ".", "=", "/", "{", "}", "#",
            "-", "!", ">"}
Quotes == {"'", "\""}
IsWord(t) == t \notin NonWord

\* ' ' * n is '' for negative n
Spaces(n) == IF n < 0 THEN 0 ELSE n

SubSeqFrom(s, i) == SubSeq(s, i, Len(s))

RECURSIVE Flatten(_)
Flatten(chunks) ==
    IF chunks = <<>> THEN <<>> ELSE Head(chunks) \o Flatten(Tail(chunks))

\* the tokens of s[i+1..j-1] are all spaces
OnlySpacesBetween(s, i, j) == \A m \in (i + 1)..(j - 1) : s[m] = " "

\* the element of a one-element set
The(S) == CHOOSE x \in S : TRUE

Min(S) == The({CHOOSE x \in T : \A y \in T : x <= y : T \in {S}})
Max(S) == The({CHOOSE x \in T : \A y \in T : x >= y : T \in {S}})

\* \d+, over the numerals of the model
Digits == {"0", "1", "2", "3", "4"}
IsDigits(t) == t \in Digits

\* the index of the first token after position i that is not a space, or 0
NextNonSpace(s, i) ==
    LET later == {m \in (i + 1)..Len(s) : s[m] # " "}
    IN  IF later = {} THEN 0 ELSE Min(later)

\* the last token of the run of non-space tokens that holds position k
RunEnd(s, k) == Max({m \in k..Len(s) : \A n \in k..m : s[n] # " "})

(***************************************************************************)
(* wrap_in_try_except, get_indented_block, wrap_block_in_try_except        *)
(***************************************************************************)
wrap_in_try_except(line, exception_type, indent_level) ==
    << Line(indent_level, <<"try", ":">>),
       Line(indent_level + 4, line.txt),
       Line(indent_level, <<"except", " ">> \o exception_type \o <<":">>),
       Line(indent_level + 4, <<"return", " ", "{", "}">>) >>

\* get_indented_block with a loop that stops at a blank line
RECURSIVE BlockLoop_StopAtBlank(_, _, _, _)
BlockLoop_StopAtBlank(lines, idx, base_indent, acc) ==
    IF idx > Len(lines) THEN acc
    ELSE IF IsBlank(lines[idx]) \/ lines[idx].ind <= base_indent THEN acc
    ELSE BlockLoop_StopAtBlank(lines, idx + 1, base_indent, Append(acc, rstrip(lines[idx])))

\* the while loop of get_indented_block: idx is the 1-based index of the
\* line under test, acc the block_lines collected so far
RECURSIVE BlockLoop(_, _, _, _)
BlockLoop(lines, idx, base_indent, acc) ==
    IF idx > Len(lines) THEN acc
    ELSE IF IsBlank(lines[idx])
         THEN BlockLoop(lines, idx + 1, base_indent, Append(acc, EmptyLine))
    ELSE IF LeadingWidth(lines[idx]) <= base_indent THEN acc
    ELSE BlockLoop(lines, idx + 1, base_indent, Append(acc, rstrip(lines[idx])))

\* start_idx is 0-based, as in the source
get_indented_block(lines, start_idx) ==
    IF start_idx >= Len(lines)
    THEN [block_lines |-> <<>>, base_indent |-> 0]
    ELSE LET base_indent == LeadingWidth(lines[start_idx + 1])
         IN  [block_lines |-> BlockLoop(lines, start_idx + 2, base_indent,
                                        <<rstrip(lines[start_idx + 1])>>),
              base_indent |-> base_indent]

\* a wrap that puts every line of the block at the same depth
wrap_block_in_try_except_Flat(block_lines, base_indent, exception_type) ==
    LET inner(block_line) ==
            IF ~IsBlank(block_line)
            THEN Line(base_indent + 4, block_line.txt)
            ELSE EmptyLine
    IN  <<Line(base_indent, <<"try", ":">>)>>
        \o [i \in 1..Len(block_lines) |-> inner(block_lines[i])]
        \o << Line(base_indent, <<"except", " ">> \o exception_type \o <<":">>),
              Line(base_indent + 4, <<"return", " ", "{", "}">>) >>

wrap_block_in_try_except(block_lines, base_indent, exception_type) ==
    LET inner(block_line) ==
            IF ~IsBlank(block_line)
            THEN Line(base_indent + 4 + Spaces(block_line.ind - base_indent),
                      block_line.txt)
            ELSE EmptyLine
    IN  <<Line(base_indent, <<"try", ":">>)>>
        \o [i \in 1..Len(block_lines) |-> inner(block_lines[i])]
        \o << Line(base_indent, <<"except", " ">> \o exception_type \o <<":">>),
              Line(base_indent + 4, <<"return", " ", "{", "}">>) >>

(***************************************************************************)
(* ERROR_DATABASE: the triggers ('detect') and transforms ('fix') of the   *)
(* modelled classes, on token sequences.                                   *)
(***************************************************************************)
\* r'open\s*\('
DetectOpen(s) ==
    \E i \in 1..Len(s), j \in 1..Len(s) :
        i < j /\ s[i] = "open" /\ s[j] = "(" /\ OnlySpacesBetween(s, i, j)

\* r'\]\s*\['
DetectChained(s) ==
    \E i \in 1..Len(s), j \in 1..Len(s) :
        i < j /\ s[i] = "]" /\ s[j] = "[" /\ OnlySpacesBetween(s, i, j)

\* r"(\w+)\[(['\"])([^'\"]+)\2\]" matched with \1 at token i and the closing
\* quote at token j
MatchLiteral(s, i, j) ==
    /\ i + 4 <= j
    /\ j + 1 <= Len(s)
    /\ IsWord(s[i])
    /\ s[i + 1] = "["
    /\ s[i + 2] \in Quotes
    /\ s[j] = s[i + 2]
    /\ s[j + 1] = "]"
    /\ \A m \in (i + 3)..(j - 1) : s[m] \notin Quotes

DetectLiteral(s) == \E i \in 1..Len(s), j \in 1..Len(s) : MatchLiteral(s, i, j)

\* re.sub(..., r"\1.get(\2\3\2, None)", line, count=1): the leftmost match
SubLiteral(s) ==
    IF ~DetectLiteral(s) THEN s
    ELSE LET i == Min({a \in 1..Len(s) : \E b \in 1..Len(s) : MatchLiteral(s, a, b)})
             j == CHOOSE b \in 1..Len(s) : MatchLiteral(s, i, b)
         IN  SubSeq(s, 1, i - 1) \o <<s[i], ".", "get", "(">> \o SubSeq(s, i + 2, j)
             \o <<",", " ", "None", ")">> \o SubSeqFrom(s, j + 2)

\* r"(\w+)\[(\w+)\]" matched with \1 at token i
MatchVariable(s, i) ==
    /\ i + 3 <= Len(s)
    /\ IsWord(s[i])
    /\ s[i + 1] = "["
    /\ IsWord(s[i + 2])
    /\ s[i + 3] = "]"

DetectVariable(s) == \E i \in 1..Len(s) : MatchVariable(s, i)

\* re.sub(..., r"\1.get(\2, None)", line, count=1): the leftmost match
SubVariable(s) ==
    IF ~DetectVariable(s) THEN s
    ELSE LET i == Min({a \in 1..Len(s) : MatchVariable(s, a)})
         IN  SubSeq(s, 1, i - 1) \o <<s[i], ".", "get", "(", s[i + 2], ",", " ", "None", ")">>
             \o SubSeqFrom(s, i + 4)

\* r'/\s*0\b'
DetectDivZero(s) ==
    \E i \in 1..Len(s), j \in 1..Len(s) :
        i < j /\ s[i] = "/" /\ s[j] = "0" /\ OnlySpacesBetween(s, i, j)

\* line.replace('/ 0', '/ 1  # Fixed: was / 0'): every occurrence of the
\* literal text, and none of '/0' or '/  0'
RECURSIVE ReplaceDivZero(_)
ReplaceDivZero(s) ==
    IF Len(s) < 3 THEN s
    ELSE IF s[1] = "/" /\ s[2] = " " /\ s[3] = "0"
         THEN <<"/", " ", "1", " ", " ", "#", " ", "Fixed", ":", " ", "was", " ", "/", " ", "0">>
              \o ReplaceDivZero(SubSeqFrom(s, 4))
         ELSE <<s[1]>> \o ReplaceDivZero(Tail(s))

\* r'np\.ceil.*\/|math\.ceil.*\/'
DetectCeil(s) ==
    \E i \in 1..Len(s), j \in 1..Len(s) :
        /\ i + 2 < j
        /\ s[i] \in {"np", "math"} /\ s[i + 1] = "." /\ s[i + 2] = "ceil"
        /\ s[j] = "/"

\* r'(\S+)\s*/\s*(\S+)' matched with \1 = s[a..b]
MatchDivision(s, a, b) ==
    /\ a <= b
    /\ \A n \in a..b : s[n] # " "
    /\ LET j == NextNonSpace(s, b)
       IN  j # 0 /\ s[j] = "/" /\ NextNonSpace(s, j) # 0

DetectDivision(s) == \E a \in 1..Len(s), b \in 1..Len(s) : MatchDivision(s, a, b)

\* r'(\1 / \2 if \2 != 0 else 0)' for the match with \1 = s[a..b]
DivisionReplaced(s, a, b) ==
    The({ SubSeq(s, 1, a - 1) \o <<"(">> \o SubSeq(s, a, b) \o <<" ", "/", " ">>
          \o SubSeq(s, k, e) \o <<" ", "if", " ">> \o SubSeq(s, k, e)
          \o <<" ", "!", "=", " ", "0", " ", "else", " ", "0", ")">>
          \o SubSeqFrom(s, e + 1) :
          <<k, e>> \in { <<k, RunEnd(s, k)>> : k \in {NextNonSpace(s, NextNonSpace(s, b))} } })

\* re.sub(..., r'(\1 / \2 if \2 != 0 else 0)', line, count=1): the leftmost
\* match, each \S+ as long as it can be
SubDivision(s) ==
    IF ~DetectDivision(s) THEN s
    ELSE The({ The({ DivisionReplaced(s, a, b) :
                     b \in {Max({y \in 1..Len(s) : MatchDivision(s, a, y)})} }) :
               a \in {Min({x \in 1..Len(s) : \E y \in 1..Len(s) : MatchDivision(s, x, y)})} })

\* r'\[-\d+\]'
DetectNegIndex(s) ==
    \E i \in 1..Len(s) :
        i + 3 <= Len(s) /\ s[i] = "[" /\ s[i + 1] = "-" /\ IsDigits(s[i + 2]) /\ s[i + 3] = "]"

\* r'\[(\d+)\]'
DetectPosIndex(s) ==
    \E i \in 1..Len(s) :
        i + 2 <= Len(s) /\ s[i] = "[" /\ IsDigits(s[i + 1]) /\ s[i + 2] = "]"

\* r'\[.+\]'
DetectAnyIndex(s) ==
    \E i \in 1..Len(s), j \in 1..Len(s) : i + 2 <= j /\ s[i] = "[" /\ s[j] = "]"

\* (?:\[['\"]?\w+['\"]?\]) matched by s[i..g]
MatchSubscript(s, i, g) ==
    /\ g <= Len(s)
    /\ s[i] = "["
    /\ s[g] = "]"
    /\ \/ g = i + 2 /\ IsWord(s[i + 1])
       \/ g = i + 3 /\ s[i + 1] \in Quotes /\ IsWord(s[i + 2])
       \/ g = i + 3 /\ IsWord(s[i + 1]) /\ s[i + 2] \in Quotes
       \/ g = i + 4 /\ s[i + 1] \in Quotes /\ IsWord(s[i + 2]) /\ s[i + 3] \in Quotes

\* r"(\w+(?:\[['\"]?\w+['\"]?\])?)\[(\d+)\]" (sign = 0) or the same with
\* (-\d+) (sign = 1), matched with \1 = s[i..g]
MatchIndexed(s, i, g, sign) ==
    /\ i <= g
    /\ g + 3 + sign <= Len(s)
    /\ IsWord(s[i])
    /\ g = i \/ MatchSubscript(s, i + 1, g)
    /\ s[g + 1] = "["
    /\ sign = 1 => s[g + 2] = "-"
    /\ IsDigits(s[g + 2 + sign])
    /\ s[g + 3 + sign] = "]"

\* the leftmost match of the index pattern, the optional subscript taken
\* when it can be; <<>> when there is none
IndexedMatch(s, sign) ==
    The({ IF starts = {} THEN <<>>
          ELSE The({ <<i, Max({g \in 1..Len(s) : MatchIndexed(s, i, g, sign)})>> :
                     i \in {Min(starts)} }) :
          starts \in {{i \in 1..Len(s) : \E g \in 1..Len(s) : MatchIndexed(s, i, g, sign)}} })

\* r'(\1[\2] if len(\1) > \2 else None)' for the match m
PosIndexReplaced(s, m) ==
    LET g1 == SubSeq(s, m[1], m[2])
        g2 == <<s[m[2] + 2]>>
    IN  SubSeq(s, 1, m[1] - 1) \o <<"(">> \o g1 \o <<"[">> \o g2
        \o <<"]", " ", "if", " ", "len", "(">> \o g1
        \o <<")", " ", ">", " ">> \o g2
        \o <<" ", "else", " ", "None", ")">>
        \o SubSeqFrom(s, m[2] + 4)

\* re.sub(..., r'(\1[\2] if len(\1) > \2 else None)', line, count=1)
SubPosIndex(s) ==
    The({ IF m = <<>> THEN s ELSE PosIndexReplaced(s, m) : m \in {IndexedMatch(s, 0)} })

\* r'(\1[\2] if len(\1) >= abs(\2) else None)' for the match m
NegIndexReplaced(s, m) ==
    LET g1 == SubSeq(s, m[1], m[2])
        g2 == <<"-", s[m[2] + 3]>>
    IN  SubSeq(s, 1, m[1] - 1) \o <<"(">> \o g1 \o <<"[">> \o g2
        \o <<"]", " ", "if", " ", "len", "(">> \o g1
        \o <<")", " ", ">", "=", " ", "abs", "(">> \o g2
        \o <<")", " ", "else", " ", "None", ")">>
        \o SubSeqFrom(s, m[2] + 5)

\* re.sub(..., r'(\1[\2] if len(\1) >= abs(\2) else None)', line, count=1)
SubNegIndex(s) ==
    The({ IF m = <<>> THEN s ELSE NegIndexReplaced(s, m) : m \in {IndexedMatch(s, 1)} })

Rule(detect, fix, multiline) == [detect |-> detect, fix |-> fix, multiline |-> multiline]

ERROR_DATABASE ==
    [ FileNotFoundError |-> << Rule("open", "wrap_FileNotFoundError", TRUE) >>,
      KeyError          |-> << Rule("chained", "wrap_KeyError", TRUE),
                               Rule("literal", "sub_literal", FALSE),
                               Rule("variable", "sub_variable", FALSE) >>,
      ZeroDivisionError |-> << Rule("div_zero", "replace_div_zero", FALSE),
                               Rule("ceil", "wrap_ZeroDivisionError", TRUE),
                               Rule("division", "sub_division", FALSE) >>,
      IndexError        |-> << Rule("chained", "wrap_IndexError_chained", TRUE),
                               Rule("neg_index", "sub_neg_index", FALSE),
                               Rule("pos_index", "sub_pos_index", FALSE),
                               Rule("any_index", "wrap_IndexError", TRUE) >>,
      UnboundLocalError |-> << Rule("any", "special_unbound_local", FALSE) >> ]

\* re.search(pattern['detect'], target_line)
Detect(pattern, target_line) ==
    CASE pattern.detect = "open"     -> DetectOpen(target_line.txt)
      [] pattern.detect = "chained"  -> DetectChained(target_line.txt)
      [] pattern.detect = "literal"  -> DetectLiteral(target_line.txt)
      [] pattern.detect = "variable" -> DetectVariable(target_line.txt)
      [] pattern.detect = "div_zero"  -> DetectDivZero(target_line.txt)
      [] pattern.detect = "ceil"      -> DetectCeil(target_line.txt)
      [] pattern.detect = "division"  -> DetectDivision(target_line.txt)
      [] pattern.detect = "neg_index" -> DetectNegIndex(target_line.txt)
      [] pattern.detect = "pos_index" -> DetectPosIndex(target_line.txt)
      [] pattern.detect = "any_index" -> DetectAnyIndex(target_line.txt)
      [] pattern.detect = "any"       -> TRUE

KeyErrorTuple == <<"(", "IndexError", ",", " ", "KeyError", ",", " ", "TypeError", ")">>

\* pattern['fix'](line, indent, error_msg): the returned string, as lines
Fix(pattern, line, indent, error_msg) ==
    CASE pattern.fix = "wrap_FileNotFoundError" ->
             wrap_in_try_except(line, <<"FileNotFoundError">>, indent)
      [] pattern.fix = "wrap_KeyError" ->
             wrap_in_try_except(line, KeyErrorTuple, indent)
      [] pattern.fix = "sub_literal" ->
             <<Line(line.ind, SubLiteral(line.txt))>>
      [] pattern.fix = "sub_variable" ->
             <<Line(line.ind, SubVariable(line.txt))>>
      [] pattern.fix = "replace_div_zero" ->
             <<Line(line.ind, ReplaceDivZero(line.txt))>>
      [] pattern.fix = "wrap_ZeroDivisionError" ->
             wrap_in_try_except(line, <<"ZeroDivisionError">>, indent)
      [] pattern.fix = "sub_division" ->
             <<Line(line.ind, SubDivision(line.txt))>>
      [] pattern.fix = "wrap_IndexError_chained" ->
             wrap_in_try_except(line, KeyErrorTuple, indent)
      [] pattern.fix = "sub_neg_index" ->
             <<Line(line.ind, SubNegIndex(line.txt))>>
      [] pattern.fix = "sub_pos_index" ->
             <<Line(line.ind, SubPosIndex(line.txt))>>
      [] pattern.fix = "wrap_IndexError" ->
             wrap_in_try_except(line, <<"IndexError">>, indent)

(***************************************************************************)
(* _fix_unbound_local_error.  A line of the diagnostic that holds          *)
(* "local variable 'v'" carries v in a field `local`.                      *)
(***************************************************************************)
\* the last line of the traceback of an UnboundLocalError on variable v
UnboundLocalLine(v) ==
    [blank |-> FALSE, colon |-> TRUE, head |-> <<"UnboundLocalError">>, frame |-> <<>>,
     local |-> v]

\* re.search raises TypeError when error_msg is None
RaisedTypeError == "TypeError_"

\* re.search(r"local variable '(\w+)'", error_msg): group 1 of the first
\* match, None without a match
LocalVariable(error_msg) ==
    IF error_msg.none THEN RaisedTypeError
    ELSE LET hits == {i \in 1..Len(error_msg.lines) :
                         "local" \in DOMAIN error_msg.lines[i]}
         IN  IF hits = {} THEN None ELSE error_msg.lines[Min(hits)].local

\* re.match(r'^\s*def\s+\w+\s*\(', line)
IsDef(line) ==
    /\ Len(line.txt) >= 4
    /\ line.txt[1] = "def"
    /\ line.txt[2] = " "
    /\ \E w \in 3..Len(line.txt), b \in 4..Len(line.txt) :
          /\ w < b
          /\ line.txt[b] = "("
          /\ IsWord(line.txt[w])
          /\ \A m \in 3..(w - 1) : line.txt[m] = " "
          /\ \A m \in (w + 1)..(b - 1) : line.txt[m] = " "

\* the positions where a run of three quote tokens q starts in s
TripleQuotes(s, q) ==
    {i \in 1..(Len(s) - 2) : s[i] = q /\ s[i + 1] = q /\ s[i + 2] = q}

\* stripped.startswith of a triple double quote or of a triple single quote:
\* the quote character, or None
DocstringQuote(line) ==
    IF 1 \in TripleQuotes(line.txt, "\"") THEN "\""
    ELSE IF 1 \in TripleQuotes(line.txt, "'") THEN "'"
    ELSE None

\* stripped.count(quote_type) >= 2: two runs that do not overlap
ClosesOnSameLine(line, q) ==
    \E i \in TripleQuotes(line.txt, q), j \in TripleQuotes(line.txt, q) : j >= i + 3

\* the 0-based insert_idx after the docstring skip
InsertIdx(lines, func_line_idx) ==
    LET first == func_line_idx + 1
        q     == IF first < Len(lines) THEN DocstringQuote(lines[first + 1]) ELSE None
        closing == {i \in (first + 1)..(Len(lines) - 1) :
                       TripleQuotes(lines[i + 1].txt, q) # {}}
    IN  IF q = None THEN first
        ELSE IF ClosesOnSameLine(lines[first + 1], q) THEN first + 1
        ELSE IF closing = {} THEN Max({first + 1, Len(lines)})
        ELSE Min(closing) + 1

\* a word that ends with var_name / starts with "None" / holds "Initialize"
EndsWithName(t, var_name) == t = var_name \/ (t = "subtotal" /\ var_name = "total")
StartsWithNone(t) == t \in {"None", "NoneType"}
HoldsInitialize(t) == t \in {"Initialize", "Initialized"}

\* f"{var_name} = None" in line and "Initialize" in line
HoldsInitializer(line, var_name) ==
    /\ \E i \in 1..(Len(line.txt) - 4) :
          /\ EndsWithName(line.txt[i], var_name)
          /\ line.txt[i + 1] = " " /\ line.txt[i + 2] = "=" /\ line.txt[i + 3] = " "
          /\ StartsWithNone(line.txt[i + 4])
    /\ \E i \in 1..Len(line.txt) : HoldsInitialize(line.txt[i])

\* f"{body_indent}{var_name} = None  # Initialize to fix UnboundLocalError\n"
InitLine(body_indent, var_name) ==
    Line(body_indent, <<var_name, " ", "=", " ", "None", " ", " ", "#", " ",
                        "Initialize", " ", "to", " ", "fix", " ",
                        "UnboundLocalError">>)

\* _fix_unbound_local_error(lines, line_number, indent, error_msg): what it
\* returns ("True", "False", None, or the exception raised) and `lines`
\* afterwards
fix_unbound_local_error(lines, line_number, indent, error_msg) ==
    LET var_name == LocalVariable(error_msg)
        defs     == {i \in 0..(line_number - 1) : IsDef(lines[i + 1])}
        func_line_idx == IF defs = {} THEN 0 ELSE Max(defs)
        insert_idx == InsertIdx(lines, func_line_idx)
        var_already_initialized ==
            \E i \in (func_line_idx + 1)..(Min({insert_idx + 3, Len(lines)}) - 1) :
                HoldsInitializer(lines[i + 1], var_name)
        body_indent == get_indent(lines[func_line_idx + 1]) + 4
    IN  IF var_name \in {RaisedTypeError, None}
        THEN [returned |-> var_name, lines |-> lines]
        ELSE IF var_already_initialized
        THEN [returned |-> "False", lines |-> lines]
        ELSE [returned |-> "True",
              lines |-> SubSeq(lines, 1, insert_idx)
                        \o <<InitLine(body_indent, var_name)>>
                        \o SubSeqFrom(lines, insert_idx + 1)]

(***************************************************************************)
(* fix_error                                                               *)
(***************************************************************************)
BlockKeywords == {"with", "for", "while"}
BlockWrapClasses == {"FileNotFoundError", "JSONDecodeError", "PermissionError"}

\* pattern['multiline'] and (re.search(r'\b(with|for|while)\b', target_line)
\*                           or target_line.strip().endswith(':'))
needs_block_wrap(pattern, target_line) ==
    /\ pattern.multiline
    /\ \/ \E i \in 1..Len(target_line.txt) : target_line.txt[i] \in BlockKeywords
       \/ /\ target_line.txt # <<>>
          /\ target_line.txt[Len(target_line.txt)] = ":"

IsNonEmptyString(line) == line # EmptyLine

FixFailed(lines) ==
    [ok |-> FALSE, content |-> lines, pattern |-> 0, replaced |-> 0, scope |-> "none"]

\* the body of the try statement with a splice that replaces one line whatever
\* the length of the block
ApplyPattern_OneLine(lines, error_type, line_number, error_message, pattern_idx) ==
    LET pattern     == ERROR_DATABASE[error_type][pattern_idx]
        target_line == lines[line_number]
        indent      == get_indent(target_line)
        before      == SubSeq(lines, 1, line_number - 1)
        standard    == Fix(pattern, target_line, indent, error_message)
        block       == get_indented_block(lines, line_number - 1)
        special     == fix_unbound_local_error(lines, line_number, indent, error_message)
    IN  IF pattern.fix = "special_unbound_local"
        THEN IF special.returned = "True"
             THEN [ok |-> TRUE, content |-> special.lines, pattern |-> pattern_idx,
                   replaced |-> 0, scope |-> "prepend"]
             ELSE FixFailed(lines)
        ELSE
        IF needs_block_wrap(pattern, target_line) /\ block.block_lines # <<>>
        THEN LET fixed == IF error_type \in BlockWrapClasses
                          THEN wrap_block_in_try_except(block.block_lines,
                                   block.base_indent, <<error_type>>)
                          ELSE standard
             IN  [ok |-> TRUE,
                  content |-> before \o SelectSeq(fixed, IsNonEmptyString)
                              \o SubSeqFrom(lines, line_number + 1),
                  pattern |-> pattern_idx,
                  replaced |-> Len(block.block_lines),
                  scope |-> "block"]
        ELSE [ok |-> TRUE,
              content |-> before \o standard \o SubSeqFrom(lines, line_number + 1),
              pattern |-> pattern_idx, replaced |-> 1,
              scope |-> IF pattern.multiline THEN "wrap" ELSE "line"]

\* the body of the try statement for the rule at pattern_idx: the lines after
\* the splice, the number of lines replaced and the branch taken; ok is FALSE
\* when the body ends in `continue` (the special handler returned a false
\* value, or raised)
ApplyPattern(lines, error_type, line_number, error_message, pattern_idx) ==
    LET pattern     == ERROR_DATABASE[error_type][pattern_idx]
        target_line == lines[line_number]
        indent      == get_indent(target_line)
        before      == SubSeq(lines, 1, line_number - 1)
        standard    == Fix(pattern, target_line, indent, error_message)
        block       == get_indented_block(lines, line_number - 1)
        special     == fix_unbound_local_error(lines, line_number, indent, error_message)
    IN  IF pattern.fix = "special_unbound_local"
        THEN IF special.returned = "True"
             THEN [ok |-> TRUE, content |-> special.lines, pattern |-> pattern_idx,
                   replaced |-> 0, scope |-> "prepend"]
             ELSE FixFailed(lines)
        ELSE
        IF needs_block_wrap(pattern, target_line)
        THEN IF block.block_lines # <<>>
             THEN LET fixed == IF error_type \in BlockWrapClasses
                               THEN wrap_block_in_try_except(block.block_lines,
                                        block.base_indent, <<error_type>>)
                               ELSE standard
                      lines_to_replace == Len(block.block_lines)
                      new_lines == SelectSeq(fixed, IsNonEmptyString)
                  IN  [ok |-> TRUE,
                       content |-> before \o new_lines
                                   \o SubSeqFrom(lines, line_number + lines_to_replace),
                       pattern |-> pattern_idx,
                       replaced |-> lines_to_replace,
                       scope |-> "block"]
             ELSE [ok |-> TRUE,
                   content |-> before \o standard \o SubSeqFrom(lines, line_number + 1),
                   pattern |-> pattern_idx, replaced |-> 1, scope |-> "line"]
        ELSE [ok |-> TRUE,
              content |-> before \o standard \o SubSeqFrom(lines, line_number + 1),
              pattern |-> pattern_idx, replaced |-> 1,
              scope |-> IF pattern.multiline THEN "wrap" ELSE "line"]

\* the for loop, letting a later matching rule override an earlier one
RECURSIVE TryPatterns_Last(_, _, _, _, _)
TryPatterns_Last(lines, error_type, line_number, error_message, pattern_idx) ==
    IF pattern_idx > Len(ERROR_DATABASE[error_type]) THEN FixFailed(lines)
    ELSE LET later == TryPatterns_Last(lines, error_type, line_number, error_message,
                                       pattern_idx + 1)
         IN  IF later.ok THEN later
             ELSE IF Detect(ERROR_DATABASE[error_type][pattern_idx], lines[line_number])
                  THEN ApplyPattern(lines, error_type, line_number, error_message, pattern_idx)
                  ELSE FixFailed(lines)

\* the for loop over ERROR_DATABASE[error_type]['patterns'], from pattern_idx on
RECURSIVE TryPatterns(_, _, _, _, _)
TryPatterns(lines, error_type, line_number, error_message, pattern_idx) ==
    IF pattern_idx > Len(ERROR_DATABASE[error_type]) THEN FixFailed(lines)
    ELSE IF Detect(ERROR_DATABASE[error_type][pattern_idx], lines[line_number])
         THEN The({ IF r.ok THEN r
                    ELSE TryPatterns(lines, error_type, line_number, error_message,
                                     pattern_idx + 1) :
                    r \in {ApplyPattern(lines, error_type, line_number, error_message,
                                        pattern_idx)} })
    ELSE TryPatterns(lines, error_type, line_number, error_message, pattern_idx + 1)

\* fix_error with a generic try/except wrap for a class the database lacks
fix_error_generic(lines, error_type, line_number, error_message) ==
    IF lines = NoFile THEN FixFailed(lines)
    ELSE IF line_number > Len(lines) \/ line_number < 1 THEN FixFailed(lines)
    ELSE IF error_type \notin DOMAIN ERROR_DATABASE
         THEN [ok |-> TRUE,
               content |-> SubSeq(lines, 1, line_number - 1)
                           \o wrap_in_try_except(lines[line_number], <<error_type>>,
                                                 get_indent(lines[line_number]))
                           \o SubSeqFrom(lines, line_number + 1),
               pattern |-> 0, replaced |-> 1, scope |-> "wrap"]
    ELSE TryPatterns(lines, error_type, line_number, error_message, 1)

\* fix_error on a file holding `lines` (NoFile when it cannot be read): ok is
\* the returned flag, content what the file holds afterwards; the file is
\* written exactly when ok
fix_error(lines, error_type, line_number, error_message) ==
    IF error_type \notin DOMAIN ERROR_DATABASE THEN FixFailed(lines)
    ELSE IF lines = NoFile THEN FixFailed(lines)
    ELSE IF line_number > Len(lines) \/ line_number < 1 THEN FixFailed(lines)
    ELSE TryPatterns(lines, error_type, line_number, error_message, 1)

(***************************************************************************)
(* Paths.  The session runs in directory /w on the script "t.py".          *)
(***************************************************************************)
script_path == "t.py"

\* script_path + '.backup'
backup_path == "t.py.backup"

\* os.path.abspath
abspath(path) ==
    CASE path \in {"t.py", "./t.py", "/w/t.py"} -> "/w/t.py"
      [] path = "t.py.backup"                   -> "/w/t.py.backup"
      [] OTHER                                  -> path

\* file_path.startswith('<')
StartsWithAngle(path) == path \in {"<frozen importlib._bootstrap>"}

\* '/lib/python' in file_path
InLibPython(path) == path \in {"/usr/lib/python3.11/json/decoder.py"}

Files == {"/w/t.py", "/w/t.py.backup", "/w/lib.py"}

(***************************************************************************)
(* Diagnostics.  The text of stderr is a sequence of lines; a line is      *)
(* described by what parse_error reads of it: whether it is blank, whether *)
(* it holds a ':', the text before its first ':' (stripped, split at '.'), *)
(* and the (file, line) of a 'File "...", line N' reference in it.         *)
(***************************************************************************)
TextLine(colon, head) == [blank |-> FALSE, colon |-> colon, head |-> head, frame |-> <<>>]
FrameLine(file, n) ==
    [blank |-> FALSE, colon |-> FALSE, head |-> <<>>, frame |-> <<[file |-> file, line |-> n]>>]
BlankLine == [blank |-> TRUE, colon |-> FALSE, head |-> <<>>, frame |-> <<>>]

\* potential_error.endswith('Error'), over the names of the model
EndsWithError(name) ==
    name \in {"KeyError", "FileNotFoundError", "CustomDomainError", "JSONDecodeError",
              "ZeroDivisionError", "IndexError", "UnboundLocalError"}

\* run_and_capture_error: stderr of a failed run, None of a clean one
run_and_capture_error(rc, err) == IF rc # 0 THEN Text(err) ELSE NoneText

\* the reversed scan for the error type, at line i of the text
RECURSIVE ScanErrorType(_, _)
ScanErrorType(lines, i) ==
    IF i < 1 THEN None
    ELSE LET line == lines[i]
             potential_error == IF line.head = <<>> THEN "" ELSE line.head[Len(line.head)]
         IN  IF /\ ~line.blank
                /\ line.colon
                /\ (potential_error \in DOMAIN ERROR_DATABASE \/ EndsWithError(potential_error))
             THEN potential_error
             ELSE ScanErrorType(lines, i - 1)

\* all_frames: the frames of the text in order, system files skipped
RECURSIVE AllFrames(_)
AllFrames(lines) ==
    IF lines = <<>> THEN <<>>
    ELSE LET line == Head(lines)
             keep == /\ line.frame # <<>>
                     /\ ~StartsWithAngle(line.frame[1].file)
                     /\ ~InLibPython(line.frame[1].file)
         IN  (IF keep THEN <<line.frame[1]>> ELSE <<>>) \o AllFrames(Tail(lines))

IsTargetFrame(frame) == abspath(frame.file) = abspath(script_path)

\* parse_error choosing the outermost frame of the target file
parse_error_Outermost(text, target_script) ==
    LET all_frames    == AllFrames(text)
        target_frames == SelectSeq(all_frames, IsTargetFrame)
        chosen        == IF target_script # None /\ all_frames # <<>> /\ target_frames # <<>>
                         THEN <<target_frames[1]>>
                         ELSE IF all_frames # <<>>
                              THEN <<all_frames[Len(all_frames)]>>
                              ELSE <<>>
    IN  [error_type |-> ScanErrorType(text, Len(text)),
         error_file |-> IF chosen = <<>> THEN None ELSE chosen[1].file,
         error_line |-> IF chosen = <<>> THEN NoLine ELSE chosen[1].line]

\* parse_error(stderr, script_path): error_type, error_file, error_line
parse_error(text, target_script) ==
    LET all_frames    == AllFrames(text)
        target_frames == SelectSeq(all_frames, IsTargetFrame)
        chosen        == IF target_script # None /\ all_frames # <<>> /\ target_frames # <<>>
                         THEN <<target_frames[Len(target_frames)]>>
                         ELSE IF all_frames # <<>>
                              THEN <<all_frames[Len(all_frames)]>>
                              ELSE <<>>
    IN  [error_type |-> ScanErrorType(text, Len(text)),
         error_file |-> IF chosen = <<>> THEN None ELSE chosen[1].file,
         error_line |-> IF chosen = <<>> THEN NoLine ELSE chosen[1].line]

(***************************************************************************)
(* The target scripts a session starts from, and the diagnostics a run of  *)
(* the script can print.                                                   *)
(***************************************************************************)
\* d['a']['b']
ChainedAccess == <<"d", "[", "'", "a", "'", "]", "[", "'", "b", "'", "]">>
\* d['k']
LiteralAccess == <<"d", "[", "'", "k", "'", "]">>
\* d[k]
VariableAccess == <<"d", "[", "k", "]">>
\* with open(p) as f:
WithOpen == <<"with", " ", "open", "(", "p", ")", " ", "as", " ", "f", ":">>
\* r = f.read()
ReadCall == <<"r", " ", "=", " ", "f", ".", "read", "(", ")">>
\* for v in d['a']['b']:
ForChained == <<"for", " ", "v", " ", "in", " ">> \o ChainedAccess \o <<":">>
\* f = open(p)
OpenCall == <<"f", " ", "=", " ", "open", "(", "p", ")">>
\* d.pop(k)
PopCall == <<"d", ".", "pop", "(", "k", ")">>

Scripts ==
    { << Line(0, ChainedAccess), Line(0, LiteralAccess), Line(0, VariableAccess) >>,
      << Line(0, WithOpen), Line(4, ReadCall), EmptyLine, Line(0, LiteralAccess) >>,
      << Line(0, ForChained), Line(4, PopCall), Line(0, OpenCall) >>,
      << Line(4, OpenCall), Line(0, PopCall) >> }

LibScript == << Line(0, PopCall) >>

TracebackHeader == TextLine(TRUE, <<"Traceback (most recent call last)">>)

\* the last line of a traceback: 'KeyError: ...', 'app.errors.CustomDomainError: ...',
\* or a bare 'KeyboardInterrupt'
ExceptionLines ==
    { TextLine(TRUE, <<"KeyError">>),
      TextLine(TRUE, <<"FileNotFoundError">>),
      TextLine(TRUE, <<"app", "errors", "CustomDomainError">>),
      TextLine(FALSE, <<"KeyboardInterrupt">>) }

\* the frames of a traceback, outermost first
FrameLists ==
    { <<>>,
      << FrameLine("<frozen importlib._bootstrap>", 1) >>,
      << FrameLine("/w/lib.py", 1) >> }
    \cup { << FrameLine(script_path, n) >> : n \in 0..MaxErrLine }
    \cup { << FrameLine(script_path, n), FrameLine("/w/lib.py", 1) >> : n \in 1..MaxErrLine }

\* what a failing run can write to stderr: nothing, a newline, or a traceback
StderrTexts ==
    { <<>>, <<BlankLine>> }
    \cup { <<TracebackHeader>> \o fl \o <<el>> : fl \in FrameLists, el \in ExceptionLines }

(***************************************************************************)
(* main                                                                    *)
(***************************************************************************)
Event(op, arg) == [op |-> op, arg |-> arg, iteration |-> iteration]

\* a descriptor that leaves out the line number
error_descriptor_ClassOnly(error_type, error_line) == <<error_type, 0>>

\* f"{error_type} at line {error_line}": the decimal line number ends the
\* string, so the descriptor determines the pair
error_descriptor(error_type, error_line) == <<error_type, error_line>>

InList(x, list) == \E i \in 1..Len(list) : list[i] = x

\* the truth value of `stderr`
Truthy(text) == ~text.none /\ text.lines # <<>>

\* a loop test that admits one pass too many
LoopCondition_Late == iteration <= max_iterations

\* while iteration < max_iterations
LoopCondition == iteration < max_iterations

Parsed == parse_error(stderr.lines, script_path)

HasErrorType == Truthy(stderr) /\ Parsed.error_type # None
HasLocation ==
    HasErrorType /\ Parsed.error_file # None /\ Parsed.error_line # NoLine /\ Parsed.error_line # 0
\* main without the test of the located file against the script
InTargetScript_AnyFile == HasLocation

InTargetScript == HasLocation /\ abspath(Parsed.error_file) = abspath(script_path)
\* no membership test of the descriptor
AlreadyFixed_Never == FALSE

\* the membership test made only once a rule is known to match the line
AlreadyFixed_AfterLookup ==
    /\ InTargetScript
    /\ InList(error_descriptor(Parsed.error_type, Parsed.error_line), fixed_errors)
    /\ Parsed.error_type \in DOMAIN ERROR_DATABASE
    /\ Parsed.error_line \in 1..Len(fs[abspath(script_path)])
    /\ \E k \in 1..Len(ERROR_DATABASE[Parsed.error_type]) :
           Detect(ERROR_DATABASE[Parsed.error_type][k],
                  fs[abspath(script_path)][Parsed.error_line])

AlreadyFixed ==
    InTargetScript /\ InList(error_descriptor(Parsed.error_type, Parsed.error_line), fixed_errors)

\* the call fix_error(error_file, error_type, error_line, full_error)
FixResult ==
    fix_error(fs[abspath(Parsed.error_file)], Parsed.error_type, Parsed.error_line, stderr)

NoProbe == [op |-> "none"]

Init ==
    /\ \E script \in Scripts :
          /\ fs = [f \in Files |-> CASE f = "/w/t.py"   -> script
                                     [] f = "/w/lib.py" -> LibScript
                                     [] OTHER           -> NoFile]
          /\ orig = script
    /\ pc = "start"
    /\ iteration = 0
    /\ fixed_errors = <<>>
    /\ returncode = 0
    /\ stderr = NoneText
    /\ printed = {}
    /\ log = <<>>
    /\ probe = NoProbe

\* a start of the session that copies nothing
CreateBackup_NoCopy ==
    /\ pc = "start"
    /\ iteration' = 0
    /\ fixed_errors' = <<>>
    /\ pc' = "loop"
    /\ UNCHANGED <<fs, printed, log, returncode, stderr, orig, probe>>

\* a start of the session that copies an existing backup over the script
CreateBackup_Restore ==
    /\ pc = "start"
    /\ fs' = IF fs[abspath(backup_path)] = NoFile
             THEN [fs EXCEPT ![abspath(backup_path)] = fs[abspath(script_path)]]
             ELSE [fs EXCEPT ![abspath(script_path)] = fs[abspath(backup_path)]]
    /\ printed' = printed \cup {"BACKUP"}
    /\ iteration' = 0
    /\ fixed_errors' = <<>>
    /\ log' = Append(log, Event("backup", abspath(backup_path)))
    /\ pc' = "loop"
    /\ UNCHANGED <<returncode, stderr, orig, probe>>

\* a start of the session that keeps a backup it finds
CreateBackup_KeepExisting ==
    /\ pc = "start"
    /\ fs' = IF fs[abspath(backup_path)] = NoFile
             THEN [fs EXCEPT ![abspath(backup_path)] = fs[abspath(script_path)]]
             ELSE fs
    /\ printed' = printed \cup {"BACKUP"}
    /\ iteration' = 0
    /\ fixed_errors' = <<>>
    /\ log' = Append(log, Event("backup", abspath(backup_path)))
    /\ pc' = "loop"
    /\ UNCHANGED <<returncode, stderr, orig, probe>>

\* shutil.copy2(script_path, backup_path), and the locals of the loop
CreateBackup ==
    /\ pc = "start"
    /\ fs' = [fs EXCEPT ![abspath(backup_path)] = fs[abspath(script_path)]]
    /\ printed' = printed \cup {"BACKUP"}
    /\ iteration' = 0
    /\ fixed_errors' = <<>>
    /\ log' = Append(log, Event("backup", abspath(backup_path)))
    /\ pc' = "loop"
    /\ UNCHANGED <<returncode, stderr, orig, probe>>

\* one pass of the loop test and stderr = run_and_capture_error(script_path)
RunScript ==
    /\ pc = "loop"
    /\ LoopCondition
    /\ iteration' = iteration + 1
    /\ \E rc \in {0, 1}, err \in StderrTexts :
          /\ returncode' = rc
          /\ stderr' = run_and_capture_error(rc, err)
    /\ log' = Append(log, [op |-> "run", arg |-> abspath(script_path), iteration |-> iteration + 1])
    /\ pc' = "ran"
    /\ UNCHANGED <<fs, fixed_errors, printed, orig, probe>>

\* the loop test fails
LoopExit ==
    /\ pc = "loop"
    /\ ~LoopCondition
    /\ pc' = "after"
    /\ UNCHANGED <<fs, iteration, fixed_errors, returncode, stderr, printed, log, orig, probe>>

\* a break of the loop after printing the report `tag`
Break(tag) ==
    /\ printed' = printed \cup {tag}
    /\ pc' = "after"
    /\ UNCHANGED <<fs, iteration, fixed_errors, returncode, stderr, log, orig, probe>>

\* if not stderr: [SUCCESS]
Converge == pc = "ran" /\ ~Truthy(stderr) /\ Break("SUCCESS")

\* if not error_type
NoErrorType == pc = "ran" /\ Truthy(stderr) /\ ~HasErrorType /\ Break("NO_TYPE")

\* if not error_file or not error_line
NoLocation == pc = "ran" /\ HasErrorType /\ ~HasLocation /\ Break("NO_LOCATION")

\* the error is in an external file: [SKIP]
ExternalFile == pc = "ran" /\ HasLocation /\ ~InTargetScript /\ Break("SKIP")

\* the cycle report without the break
CycleDetected_Continue ==
    /\ pc = "ran"
    /\ AlreadyFixed
    /\ printed' = printed \cup {"LOOP_DETECTED"}
    /\ pc' = "loop"
    /\ UNCHANGED <<fs, iteration, fixed_errors, returncode, stderr, log, orig, probe>>

\* if error_descriptor in fixed_errors: infinite loop detected
CycleDetected == pc = "ran" /\ AlreadyFixed /\ Break("LOOP_DETECTED")

\* a patch that first refreshes the backup from the current file
FixApplied_Rebackup ==
    /\ pc = "ran"
    /\ InTargetScript
    /\ ~AlreadyFixed
    /\ FixResult.ok
    /\ fs' = [fs EXCEPT ![abspath(backup_path)] = fs[abspath(script_path)],
                        ![abspath(Parsed.error_file)] = FixResult.content]
    /\ fixed_errors' = Append(fixed_errors,
                              error_descriptor(Parsed.error_type, Parsed.error_line))
    /\ log' = log \o << Event("fix", [sig |-> error_descriptor(Parsed.error_type, Parsed.error_line),
                                      ok |-> TRUE, pattern |-> FixResult.pattern,
                                      replaced |-> FixResult.replaced,
                                      scope |-> FixResult.scope]),
                        Event("write", abspath(Parsed.error_file)) >>
    /\ pc' = "loop"
    /\ UNCHANGED <<iteration, returncode, stderr, printed, orig, probe>>

\* fix_error returned True: the file was written, the descriptor is recorded
FixApplied ==
    /\ pc = "ran"
    /\ InTargetScript
    /\ ~AlreadyFixed
    /\ FixResult.ok
    /\ fs' = [fs EXCEPT ![abspath(Parsed.error_file)] = FixResult.content]
    /\ fixed_errors' = Append(fixed_errors,
                              error_descriptor(Parsed.error_type, Parsed.error_line))
    /\ log' = log \o << Event("fix", [sig |-> error_descriptor(Parsed.error_type, Parsed.error_line),
                                      ok |-> TRUE, pattern |-> FixResult.pattern,
                                      replaced |-> FixResult.replaced,
                                      scope |-> FixResult.scope]),
                        Event("write", abspath(Parsed.error_file)) >>
    /\ pc' = "loop"
    /\ UNCHANGED <<iteration, returncode, stderr, printed, orig, probe>>

\* fix_error returned False: [FAILED]
FixRejected ==
    /\ pc = "ran"
    /\ InTargetScript
    /\ ~AlreadyFixed
    /\ ~FixResult.ok
    /\ printed' = printed \cup {"FAILED"}
    /\ log' = Append(log, Event("fix", [sig |-> error_descriptor(Parsed.error_type, Parsed.error_line),
                                        ok |-> FALSE, pattern |-> 0, replaced |-> 0,
                                        scope |-> "none"]))
    /\ pc' = "after"
    /\ UNCHANGED <<fs, iteration, fixed_errors, returncode, stderr, orig, probe>>

\* after the loop: if iteration >= max_iterations: [TIMEOUT], [RESTORE]
Report ==
    /\ pc = "after"
    /\ printed' = IF iteration >= max_iterations
                  THEN printed \cup {"TIMEOUT", "RESTORE"}
                  ELSE printed
    /\ pc' = "done"
    /\ UNCHANGED <<fs, iteration, fixed_errors, returncode, stderr, log, orig, probe>>

Next ==
    \/ CreateBackup
    \/ RunScript
    \/ LoopExit
    \/ Converge
    \/ NoErrorType
    \/ NoLocation
    \/ ExternalFile
    \/ CycleDetected
    \/ FixApplied
    \/ FixRejected
    \/ Report

Spec == Init /\ [][Next]_vars

\* every step of main is taken once it can be: a run of the script returns
FairSpec == Spec /\ WF_vars(Next)

(***************************************************************************)
(* What the claims speak of, in terms of the state.                        *)
(***************************************************************************)
TargetFile == abspath(script_path)
BackupFile == abspath(backup_path)

EventsOf(op) == {i \in 1..Len(log) : log[i].op = op}
IsOkFix(e) == e.op = "fix" /\ e.arg.ok
OkFixes == SelectSeq(log, IsOkFix)

\* the terminal outcomes the printed report states
UnrecoverableTags == {"NO_TYPE", "NO_LOCATION", "SKIP", "FAILED"}
Outcomes ==
    (IF "SUCCESS" \in printed THEN {"Converged"} ELSE {})
    \cup (IF printed \cap UnrecoverableTags # {} THEN {"Unrecoverable"} ELSE {})
    \cup (IF "LOOP_DETECTED" \in printed THEN {"Cycled"} ELSE {})
    \cup (IF "TIMEOUT" \in printed THEN {"IterationLimitReached"} ELSE {})

Ended == pc \in {"after", "done"}

\* the descriptor main computes for the diagnostic (line 958) is recorded
DescriptorRecorded ==
    /\ Truthy(stderr)
    /\ Parsed.error_type # None
    /\ Parsed.error_file # None
    /\ Parsed.error_line > 0
    /\ abspath(Parsed.error_file) = TargetFile
    /\ \E i \in 1..Len(fixed_errors) :
           fixed_errors[i] = <<Parsed.error_type, Parsed.error_line>>

\* C1: the loop ends after at most max_iterations runs of the script and at
\* most max_iterations patch applications, whatever the runs print.
C1_BoundedTermination ==
    /\ [](/\ Cardinality(EventsOf("run")) <= max_iterations
          /\ Cardinality(EventsOf("fix")) <= max_iterations
          /\ Cardinality(EventsOf("write")) <= max_iterations)
    /\ <>(pc = "done")

C1_Witness ==
    /\ pc = "done"
    /\ Cardinality(EventsOf("run")) = max_iterations
    /\ Cardinality(EventsOf("write")) = max_iterations

\* C2: fixed_errors holds each (class, line) descriptor at most once; fix_error
\* is never called for a recorded descriptor; the recorded descriptors are
\* exactly those of the fix_error calls that returned True, in order.
C2_UniqueSignatures ==
    /\ \A i, j \in 1..Len(fixed_errors) : fixed_errors[i] = fixed_errors[j] => i = j
    /\ \A i \in EventsOf("fix") : \A j \in 1..(i - 1) :
           IsOkFix(log[j]) => log[j].arg.sig # log[i].arg.sig
    /\ Len(fixed_errors) = Len(OkFixes)
    /\ \A i \in 1..Len(fixed_errors) : fixed_errors[i] = OkFixes[i].arg.sig

C2_Witness ==
    /\ Len(fixed_errors) >= 2
    /\ "LOOP_DETECTED" \in printed

\* C3: when the descriptor of the parsed diagnostic is already recorded, the
\* iteration ends the session as Cycled with no fix_error call and no write,
\* and an ended session runs nothing more.
C3_CycleEndsSession ==
    /\ [][(pc = "ran" /\ DescriptorRecorded) =>
             /\ pc' = "after"
             /\ "LOOP_DETECTED" \in printed'
             /\ fs' = fs
             /\ log' = log]_vars
    /\ [][Ended => (Ended' /\ log' = log /\ fs' = fs)]_vars

C3_Witness ==
    /\ pc = "done"
    /\ DescriptorRecorded
    /\ "Cycled" \in Outcomes
    /\ log[Len(log)].op = "run"

\* C4 (as claimed): a session ends in exactly one of the four outcomes.
C4_ExactlyOneOutcome == pc = "done" => Cardinality(Outcomes) = 1

\* C5: the backup is created exactly once, before the first run and before
\* every write; the target is never modified while no backup exists.
C5_BackupFirst ==
    /\ Cardinality(EventsOf("backup")) = (IF pc = "start" THEN 0 ELSE 1)
    /\ \A i \in 1..Len(log) : log[i].op # "backup" => log[1].op = "backup" /\ i > 1
    /\ fs[TargetFile] # orig => fs[BackupFile] # NoFile

C5_Witness ==
    /\ pc = "done"
    /\ EventsOf("write") # {}
    /\ fs[TargetFile] # orig

\* C6: from its creation on the backup holds the target's content at session
\* start, in every terminal outcome.
C6_BackupIntact == pc # "start" => fs[BackupFile] = orig

C6_Witness ==
    /\ pc = "done"
    /\ "Converged" \notin Outcomes
    /\ fs[TargetFile] # orig
    /\ fs[BackupFile] = orig

\* C7 (as claimed): the session ends Converged exactly when the most recent
\* run exited with status 0.
C7_ConvergedIffCleanExit ==
    (Ended /\ EventsOf("run") # {}) => ("Converged" \in Outcomes <=> returncode = 0)

\* the ways a diagnostic leaves nothing to patch (C8)
NoFailureClass == Truthy(stderr) /\ Parsed.error_type = None
NoFrame == Truthy(stderr) /\ Parsed.error_file = None
ClassUnregistered ==
    Truthy(stderr) /\ Parsed.error_type # None /\ Parsed.error_type \notin DOMAIN ERROR_DATABASE
NoRuleMatches ==
    /\ Truthy(stderr)
    /\ Parsed.error_type \in DOMAIN ERROR_DATABASE
    /\ Parsed.error_file # None
    /\ abspath(Parsed.error_file) = TargetFile
    /\ Parsed.error_line \in 1..Len(fs[TargetFile])
    /\ \A k \in 1..Len(ERROR_DATABASE[Parsed.error_type]) :
           ~Detect(ERROR_DATABASE[Parsed.error_type][k], fs[TargetFile][Parsed.error_line])
NothingToPatch == NoFailureClass \/ NoFrame \/ ClassUnregistered \/ NoRuleMatches

\* Scenario D: an unregistered class on the first iteration leaves no patch
\* and the backup equal to the original file
ScenarioD ==
    (iteration = 1 /\ ClassUnregistered) =>
        /\ fixed_errors' = <<>>
        /\ EventsOf("write") = {}
        /\ fs'[TargetFile] = orig
        /\ fs'[BackupFile] = orig

\* C8 (as claimed): a diagnostic with no class, no frame, an unregistered
\* class or no matching rule ends the session Unrecoverable in that iteration
\* without a write.
C8_NothingToPatchIsUnrecoverable ==
    [][(pc = "ran" /\ NothingToPatch) =>
          /\ pc' = "after"
          /\ printed' \cap UnrecoverableTags # {}
          /\ "LOOP_DETECTED" \notin printed'
          /\ fs' = fs
          /\ ScenarioD]_vars

\* C8 (amended): such a diagnostic ends the session in that iteration without
\* a write; the loop is left as Unrecoverable, except that a diagnostic whose
\* descriptor is already recorded leaves it as Cycled (the cycle test comes
\* before the rule lookup).
C8_NothingToPatchEndsSession ==
    [][(pc = "ran" /\ NothingToPatch) =>
          /\ pc' = "after"
          /\ IF DescriptorRecorded
             THEN printed' = printed \cup {"LOOP_DETECTED"}
             ELSE /\ printed' \cap UnrecoverableTags # {}
                  /\ "LOOP_DETECTED" \notin printed'
          /\ fs' = fs
          /\ EventsOf("write")' = EventsOf("write")
          /\ ScenarioD]_vars

C8_Witness ==
    /\ pc = "done"
    /\ NoRuleMatches
    /\ ~DescriptorRecorded
    /\ fixed_errors # <<>>
    /\ "FAILED" \in printed
    /\ log[Len(log)].op = "fix"

(***************************************************************************)
(* Direct calls of fix_error and get_indented_block on drawn inputs.       *)
(***************************************************************************)
\* the session variables, at rest while a direct call is made
NoSession ==
    /\ fs = [f \in Files |-> NoFile]
    /\ pc = "probe"
    /\ iteration = 0
    /\ fixed_errors = <<>>
    /\ returncode = 0
    /\ stderr = NoneText
    /\ printed = {}
    /\ log = <<>>
    /\ orig = NoFile

SessionVars == <<fs, pc, iteration, fixed_errors, returncode, stderr, printed, log, orig>>
SessionVarsButFs == <<pc, iteration, fixed_errors, returncode, stderr, printed, log, orig>>

RECURSIVE SeqsUpTo(_, _)
\* the sequences of at most n elements of S
SeqsUpTo(S, n) ==
    IF n = 0 THEN {<<>>}
    ELSE LET shorter == SeqsUpTo(S, n - 1)
         IN  shorter \cup {Append(q, x) : q \in shorter, x \in S}

\* pieces of a failing line
Fragments ==
    { <<"d">>, <<"[">>, <<"]">>, <<"'">>, <<"\"">>, <<" ">>,
      LiteralAccess, VariableAccess,
      <<"[", "'", "a", "'", "]">>, <<"[", "k", "]">>,
      <<"open">>, <<"(">> }

\* a file of one line, failing at line 1 with a registered class
InitRule ==
    /\ NoSession
    /\ \E pieces \in SeqsUpTo(Fragments, MaxFragments), error_type \in DOMAIN ERROR_DATABASE :
          probe = [op |-> "fix_error", done |-> FALSE,
                   lines |-> <<Line(0, Flatten(pieces))>>,
                   error_type |-> error_type, line_number |-> 1,
                   result |-> FixFailed(<<>>)]

\* fix_error(file, error_type, line_number, '')
CallFixError ==
    /\ probe.op = "fix_error"
    /\ ~probe.done
    /\ probe' = [probe EXCEPT !.done = TRUE,
                              !.result = fix_error(probe.lines, probe.error_type,
                                                   probe.line_number, NoneText)]
    /\ UNCHANGED SessionVars

SpecRule == InitRule /\ [][CallFixError]_vars

\* the lines of the files get_indented_block is called on
LineShapes ==
    { EmptyLine, Line(2, <<>>),
      Line(0, PopCall), Line(4, PopCall), Line(8, PopCall),
      Line(0, WithOpen), Line(4, WithOpen) }

\* a file of at most MaxBlockLines lines, failing with FileNotFoundError at
\* any of its lines (or one past the end)
InitBlock ==
    /\ NoSession
    /\ \E lines \in SeqsUpTo(LineShapes, MaxBlockLines) :
          \E line_number \in 1..(Len(lines) + 1) :
             probe = [op |-> "block", done |-> FALSE,
                      lines |-> lines,
                      error_type |-> "FileNotFoundError", line_number |-> line_number,
                      block |-> [block_lines |-> <<>>, base_indent |-> 0],
                      result |-> FixFailed(<<>>)]

\* get_indented_block(lines, line_number - 1) and the fix_error call around it
CallBlock ==
    /\ probe.op = "block"
    /\ ~probe.done
    /\ probe' = [probe EXCEPT !.done = TRUE,
                              !.block = get_indented_block(probe.lines, probe.line_number - 1),
                              !.result = fix_error(probe.lines, probe.error_type,
                                                   probe.line_number, NoneText)]
    /\ UNCHANGED SessionVars

SpecBlock == InitBlock /\ [][CallBlock]_vars

\* the rules of the probed class whose trigger matches the failing line
MatchingRules ==
    {k \in 1..Len(ERROR_DATABASE[probe.error_type]) :
        Detect(ERROR_DATABASE[probe.error_type][k], probe.lines[probe.line_number])}

Indentation(line) == line.ind

\* the block-scope call: the failing line opens a block and the span is replaced
BlockPatched ==
    probe.op = "block" /\ probe.done /\ probe.result.ok /\ probe.result.scope = "block"

SpanFirst == probe.line_number
SpanLast == probe.line_number + probe.result.replaced - 1

\* C10 (as claimed): the replaced span is the failing line and the run of
\* following lines indented strictly deeper; it ends at the first line
\* indented no deeper than the failing line, or at end of file.
C10_SpanIsDeeperRun ==
    BlockPatched =>
        /\ probe.result.replaced = Len(probe.block.block_lines)
        /\ probe.result.replaced >= 1
        /\ \A i \in (SpanFirst + 1)..SpanLast :
               Indentation(probe.lines[i]) > Indentation(probe.lines[SpanFirst])
        /\ \/ SpanLast = Len(probe.lines)
           \/ Indentation(probe.lines[SpanLast + 1]) <= Indentation(probe.lines[SpanFirst])

\* C10 (amended): the replaced span is the failing line and the following
\* lines up to, not including, the first non-blank line indented no deeper
\* than the failing line (or up to end of file): every line of the span after
\* the first is blank or indented strictly deeper, and blank lines never end
\* the span, so blank lines that trail the block belong to it.
C10_SpanEndsAtNonBlankDedent ==
    BlockPatched =>
        /\ probe.result.replaced = Len(probe.block.block_lines)
        /\ probe.result.replaced >= 1
        /\ \A i \in (SpanFirst + 1)..SpanLast :
               \/ IsBlank(probe.lines[i])
               \/ Indentation(probe.lines[i]) > Indentation(probe.lines[SpanFirst])
        /\ \/ SpanLast = Len(probe.lines)
           \/ /\ ~IsBlank(probe.lines[SpanLast + 1])
              /\ Indentation(probe.lines[SpanLast + 1]) <= Indentation(probe.lines[SpanFirst])

C10_Witness ==
    /\ BlockPatched
    /\ probe.result.replaced = 3
    /\ IsBlank(probe.lines[SpanLast])
    /\ SpanLast < Len(probe.lines)
    /\ Indentation(probe.lines[SpanFirst]) = 4

(***************************************************************************)
(* The write of fix_error, step by step: open(file_path, 'w') truncates    *)
(* the file, writelines() fills the stream's buffer, which reaches the     *)
(* disk in pieces, and leaving the with statement flushes the rest.  The   *)
(* process can be killed or interrupted between any two steps.             *)
(***************************************************************************)
\* a prefix of the lines of a file
Prefix(lines, n) == SubSeq(lines, 1, n)

\* the diagnostics fix_error is called for: a registered class at a line of the file
Diagnostics(lines) == {d \in (DOMAIN ERROR_DATABASE) \X (1..Len(lines)) :
                          fix_error(lines, d[1], d[2], NoneText).ok}

\* fix_error has read the file and spliced the patch into `lines`
InitWrite ==
    /\ \E script \in Scripts : \E d \in Diagnostics(script) :
          /\ fs = [f \in Files |-> CASE f = "/w/t.py"        -> script
                                     [] f = "/w/t.py.backup" -> script
                                     [] OTHER                -> NoFile]
          /\ orig = script
          /\ probe = [op |-> "write", pc |-> "patched", crashed |-> FALSE,
                      before |-> script,
                      lines |-> fix_error(script, d[1], d[2], NoneText).content]
    /\ pc = "probe"
    /\ iteration = 1
    /\ fixed_errors = <<>>
    /\ returncode = 1
    /\ stderr = NoneText
    /\ printed = {"BACKUP"}
    /\ log = <<>>

WriteVars == <<pc, iteration, fixed_errors, returncode, stderr, printed, log, orig>>

\* open(file_path, 'w', encoding='utf-8'): the file is truncated
OpenForWrite ==
    /\ probe.op = "write" /\ probe.pc = "patched" /\ ~probe.crashed
    /\ fs' = [fs EXCEPT ![TargetFile] = <<>>]
    /\ probe' = [probe EXCEPT !.pc = "open"]
    /\ UNCHANGED WriteVars

\* f.writelines(lines): a further piece of the buffer reaches the disk
WriteLines ==
    /\ probe.op = "write" /\ probe.pc = "open" /\ ~probe.crashed
    /\ \E n \in (Len(fs[TargetFile]) + 1)..Len(probe.lines) :
          fs' = [fs EXCEPT ![TargetFile] = Prefix(probe.lines, n)]
    /\ UNCHANGED <<probe, WriteVars>>

\* leaving the with statement: the stream is flushed and closed
CloseWrite ==
    /\ probe.op = "write" /\ probe.pc = "open" /\ ~probe.crashed
    /\ fs' = [fs EXCEPT ![TargetFile] = probe.lines]
    /\ probe' = [probe EXCEPT !.pc = "written"]
    /\ UNCHANGED WriteVars

\* the process is killed (SIGKILL, power loss) during fix_error's write
Crash ==
    /\ probe.op = "write" /\ probe.pc \in {"patched", "open"} /\ ~probe.crashed
    /\ probe' = [probe EXCEPT !.crashed = TRUE]
    /\ UNCHANGED <<fs, WriteVars>>

\* the process is interrupted (KeyboardInterrupt, not an Exception) inside
\* writelines: the with statement closes the stream, which flushes the lines
\* writelines had handed over so far
Interrupt ==
    /\ probe.op = "write" /\ probe.pc = "open" /\ ~probe.crashed
    /\ \E n \in Len(fs[TargetFile])..Len(probe.lines) :
          fs' = [fs EXCEPT ![TargetFile] = Prefix(probe.lines, n)]
    /\ probe' = [probe EXCEPT !.crashed = TRUE, !.pc = "interrupted"]
    /\ UNCHANGED WriteVars

NextWrite == OpenForWrite \/ WriteLines \/ CloseWrite \/ Crash \/ Interrupt

SpecWrite == InitWrite /\ [][NextWrite]_vars

\* C11 (as claimed): whenever fix_error's write is cut short by a crash, the
\* target file holds the complete content from before the patch or the
\* complete patched content, never an empty or partly written file.
C11_AtomicWrite ==
    (probe.op = "write" /\ probe.crashed) =>
        fs[TargetFile] \in {probe.before, probe.lines}

(***************************************************************************)
(* Runs of a script as a function of its text.  The scripts are sequences  *)
(* of top-level statements in which, as in nightmare_code.py, every        *)
(* subscripted dict is {}, every subscripted list is [] and every name     *)
(* used as a divisor is 0, so that a statement fails exactly when it       *)
(* subscripts or divides outside a conditional expression.                 *)
(***************************************************************************)
\* y = 1
Assign == <<"y", " ", "=", " ", "1">>
\* a / b
DivNames == <<"a", " ", "/", " ", "b">>
\* a / 0
DivZeroLit == <<"a", " ", "/", " ", "0">>
\* a/0
DivZeroTight == <<"a", "/", "0">>
\* a[0]
IndexAccess == <<"a", "[", "0", "]">>
\* sys.exit(1)
ExitCall == <<"sys", ".", "exit", "(", "1", ")">>

\* the statement of a line: its text before a comment
Code(txt) ==
    LET hashes == {i \in 1..Len(txt) : txt[i] = "#"}
    IN  IF hashes = {} THEN txt ELSE SubSeq(txt, 1, Min(hashes) - 1)

\* a division whose divisor is 0 or a name
DividesByZero(s) ==
    \E j \in 1..Len(s) :
        /\ s[j] = "/"
        /\ NextNonSpace(s, j) # 0
        /\ LET d == s[NextNonSpace(s, j)] IN d = "0" \/ (IsWord(d) /\ ~IsDigits(d))

\* the class of the exception the statement of `line` raises, or None
Raises(line) ==
    LET s == Code(line.txt)
    IN  IF \E i \in 1..Len(s) : s[i] = "if" THEN None
        ELSE IF DividesByZero(s) THEN "ZeroDivisionError"
        ELSE IF DetectPosIndex(s) \/ DetectNegIndex(s) THEN "IndexError"
        ELSE IF DetectLiteral(s) \/ DetectVariable(s) THEN "KeyError"
        ELSE IF s = PopCall THEN "KeyError"
        ELSE None

\* execution stops at the first statement that raises or exits
Stops(line) == Raises(line) # None \/ Code(line.txt) = ExitCall

\* the outcome of a run that stops at line n
StopsAt(lines, n) ==
    The({ IF raised = None THEN [rc |-> 1, err |-> <<>>]
          ELSE [rc |-> 1,
                err |-> << TracebackHeader, FrameLine(script_path, n),
                           TextLine(TRUE, <<raised>>) >>] :
          raised \in {Raises(lines[n])} })

\* python script_path: the exit status and the text of stderr
Interpret(lines) ==
    The({ IF stops = {} THEN [rc |-> 0, err |-> <<>>] ELSE StopsAt(lines, Min(stops)) :
          stops \in {{n \in 1..Len(lines) : Stops(lines[n])}} })

\* number of lines of the scripts SpecScript draws
MaxScriptLines == 3

\* main's max_iterations as the source sets it
SourceMaxIterations == 100

Statements ==
    { LiteralAccess, VariableAccess, DivNames, DivZeroLit, DivZeroTight, IndexAccess,
      PopCall, Assign, ExitCall }

\* src/nightmare_code.py
nightmare_code ==
    <<
       Line(0, <<"#", "!", "/", "usr", "/", "bin", "/", "env", " ", "python3">>),
       Line(0, <<"\"", "\"", "\"">>),
       Line(0, <<"Legacy", " ", "nightmare", " ", "-", " ", "52", " ", "fixable", " ", "errors", " ", "in", " ", "one", " ", "file", ".">>),
       Line(0, <<>>),
       Line(0, <<"This", " ", "is", " ", "what", " ", "inheriting", " ", "a", " ", "codebase", " ", "feels", " ", "like", ".">>),
       Line(0, <<"Watch", " ", "it", " ", "transform", " ", "from", " ", "broken", " ", "to", " ", "working", " ", "in", " ", "seconds", ".">>),
       Line(0, <<>>),
       Line(0, <<"ONLY", " ", "fixable", " ", "errors", ":", " ", "KeyError", ",", " ", "ZeroDivisionError", ",", " ", "IndexError">>),
       Line(0, <<"NO", " ", "FileNotFoundError", " ", "-", " ", "those", " ", "stop", " ", "execution", " ", "before", " ", "we", " ", "can", " ", "fix", " ", "everything">>),
       Line(0, <<"\"", "\"", "\"">>),
       Line(0, <<>>),
       Line(0, <<"#", " ", "Bug", " ", "cluster", " ", "1", ":", " ", "Dictionary", " ", "access", " ", "(", "KeyErrors", ")", " ", "-", " ", "10", " ", "bugs">>),
       Line(0, <<"config", " ", "=", " ", "{", "}">>),
       Line(0, <<"db_host", " ", "=", " ", "config", "[", "'", "database", "'", "]", " ", " ", "#", " ", "KeyError", " ", "1">>),
       Line(0, <<"api_key", " ", "=", " ", "config", "[", "'", "api_key", "'", "]", " ", " ", "#", " ", "KeyError", " ", "2">>),
       Line(0, <<"port", " ", "=", " ", "config", "[", "'", "port", "'", "]", " ", " ", "#", " ", "KeyError", " ", "3">>),
       Line(0, <<"timeout", " ", "=", " ", "config", "[", "'", "timeout", "'", "]", " ", " ", "#", " ", "KeyError", " ", "4">>),
       Line(0, <<"max_conn", " ", "=", " ", "config", "[", "'", "max", "'", "]", " ", " ", "#", " ", "KeyError", " ", "5">>),
       Line(0, <<>>),
       Line(0, <<"settings", " ", "=", " ", "{", "}">>),
       Line(0, <<"log_level", " ", "=", " ", "settings", "[", "'", "log_level", "'", "]", " ", " ", "#", " ", "KeyError", " ", "6">>),
       Line(0, <<"log_file", " ", "=", " ", "settings", "[", "'", "log_file", "'", "]", " ", " ", "#", " ", "KeyError", " ", "7">>),
       Line(0, <<"log_format", " ", "=", " ", "settings", "[", "'", "log_format", "'", "]", " ", " ", "#", " ", "KeyError", " ", "8">>),
       Line(0, <<"log_rotation", " ", "=", " ", "settings", "[", "'", "log_rotation", "'", "]", " ", " ", "#", " ", "KeyError", " ", "9">>),
       Line(0, <<"log_size", " ", "=", " ", "settings", "[", "'", "log_size", "'", "]", " ", " ", "#", " ", "KeyError", " ", "10">>),
       Line(0, <<>>),
       Line(0, <<"#", " ", "Bug", " ", "cluster", " ", "2", ":", " ", "Division", " ", "by", " ", "zero", " ", "-", " ", "10", " ", "bugs">>),
       Line(0, <<"total", " ", "=", " ", "100">>),
       Line(0, <<"count", " ", "=", " ", "0">>),
       Line(0, <<"avg1", " ", "=", " ", "total", " ", "/", " ", "count", " ", " ", "#", " ", "ZeroDivisionError", " ", "1">>),
       Line(0, <<"avg2", " ", "=", " ", "50", " ", "/", " ", "count", " ", " ", "#", " ", "ZeroDivisionError", " ", "2">>),
       Line(0, <<"avg3", " ", "=", " ", "75", " ", "/", " ", "count", " ", " ", "#", " ", "ZeroDivisionError", " ", "3">>),
       Line(0, <<"avg4", " ", "=", " ", "25", " ", "/", " ", "count", " ", " ", "#", " ", "ZeroDivisionError", " ", "4">>),
       Line(0, <<"avg5", " ", "=", " ", "10", " ", "/", " ", "count", " ", " ", "#", " ", "ZeroDivisionError", " ", "5">>),
       Line(0, <<>>),
       Line(0, <<"x", " ", "=", " ", "10">>),
       Line(0, <<"y", " ", "=", " ", "0">>),
       Line(0, <<"result1", " ", "=", " ", "x", " ", "/", " ", "y", " ", " ", "#", " ", "ZeroDivisionError", " ", "6">>),
       Line(0, <<"result2", " ", "=", " ", "x", " ", "/", " ", "y", " ", " ", "#", " ", "ZeroDivisionError", " ", "7">>),
       Line(0, <<"result3", " ", "=", " ", "x", " ", "/", " ", "y", " ", " ", "#", " ", "ZeroDivisionError", " ", "8">>),
       Line(0, <<"result4", " ", "=", " ", "x", " ", "/", " ", "y", " ", " ", "#", " ", "ZeroDivisionError", " ", "9">>),
       Line(0, <<"result5", " ", "=", " ", "x", " ", "/", " ", "y", " ", " ", "#", " ", "ZeroDivisionError", " ", "10">>),
       Line(0, <<>>),
       Line(0, <<"#", " ", "Bug", " ", "cluster", " ", "3", ":", " ", "Index", " ", "errors", " ", "-", " ", "10", " ", "bugs">>),
       Line(0, <<"items", " ", "=", " ", "[", "]">>),
       Line(0, <<"val1", " ", "=", " ", "items", "[", "0", "]", " ", " ", "#", " ", "IndexError", " ", "1">>),
       Line(0, <<"val2", " ", "=", " ", "items", "[", "1", "]", " ", " ", "#", " ", "IndexError", " ", "2">>),
       Line(0, <<"val3", " ", "=", " ", "items", "[", "2", "]", " ", " ", "#", " ", "IndexError", " ", "3">>),
       Line(0, <<"val4", " ", "=", " ", "items", "[", "3", "]", " ", " ", "#", " ", "IndexError", " ", "4">>),
       Line(0, <<"val5", " ", "=", " ", "items", "[", "4", "]", " ", " ", "#", " ", "IndexError", " ", "5">>),
       Line(0, <<>>),
       Line(0, <<"data", " ", "=", " ", "[", "]">>),
       Line(0, <<"item1", " ", "=", " ", "data", "[", "0", "]", " ", " ", "#", " ", "IndexError", " ", "6">>),
       Line(0, <<"item2", " ", "=", " ", "data", "[", "1", "]", " ", " ", "#", " ", "IndexError", " ", "7">>),
       Line(0, <<"item3", " ", "=", " ", "data", "[", "2", "]", " ", " ", "#", " ", "IndexError", " ", "8">>),
       Line(0, <<"item4", " ", "=", " ", "data", "[", "3", "]", " ", " ", "#", " ", "IndexError", " ", "9">>),
       Line(0, <<"item5", " ", "=", " ", "data", "[", "4", "]", " ", " ", "#", " ", "IndexError", " ", "10">>),
       Line(0, <<>>),
       Line(0, <<"#", " ", "Bug", " ", "cluster", " ", "4", ":", " ", "More", " ", "KeyErrors", " ", "-", " ", "10", " ", "bugs">>),
       Line(0, <<"users", " ", "=", " ", "{", "}">>),
       Line(0, <<"admin", " ", "=", " ", "users", "[", "'", "admin", "'", "]", " ", " ", "#", " ", "KeyError", " ", "11">>),
       Line(0, <<"mod", " ", "=", " ", "users", "[", "'", "moderator", "'", "]", " ", " ", "#", " ", "KeyError", " ", "12">>),
       Line(0, <<"guest", " ", "=", " ", "users", "[", "'", "guest", "'", "]", " ", " ", "#", " ", "KeyError", " ", "13">>),
       Line(0, <<"service", " ", "=", " ", "users", "[", "'", "service", "'", "]", " ", " ", "#", " ", "KeyError", " ", "14">>),
       Line(0, <<"system", " ", "=", " ", "users", "[", "'", "system", "'", "]", " ", " ", "#", " ", "KeyError", " ", "15">>),
       Line(0, <<>>),
       Line(0, <<"cache", " ", "=", " ", "{", "}">>),
       Line(0, <<"key1", " ", "=", " ", "cache", "[", "'", "key1", "'", "]", " ", " ", "#", " ", "KeyError", " ", "16">>),
       Line(0, <<"key2", " ", "=", " ", "cache", "[", "'", "key2", "'", "]", " ", " ", "#", " ", "KeyError", " ", "17">>),
       Line(0, <<"key3", " ", "=", " ", "cache", "[", "'", "key3", "'", "]", " ", " ", "#", " ", "KeyError", " ", "18">>),
       Line(0, <<"key4", " ", "=", " ", "cache", "[", "'", "key4", "'", "]", " ", " ", "#", " ", "KeyError", " ", "19">>),
       Line(0, <<"key5", " ", "=", " ", "cache", "[", "'", "key5", "'", "]", " ", " ", "#", " ", "KeyError", " ", "20">>),
       Line(0, <<>>),
       Line(0, <<"#", " ", "Bug", " ", "cluster", " ", "5", ":", " ", "More", " ", "ZeroDivisionErrors", " ", "-", " ", "10", " ", "bugs">>),
       Line(0, <<"a", " ", "=", " ", "100">>),
       Line(0, <<"b", " ", "=", " ", "0">>),
       Line(0, <<"div1", " ", "=", " ", "a", " ", "/", " ", "b", " ", " ", "#", " ", "ZeroDivisionError", " ", "11">>),
       Line(0, <<"div2", " ", "=", " ", "a", " ", "/", " ", "b", " ", " ", "#", " ", "ZeroDivisionError", " ", "12">>),
       Line(0, <<"div3", " ", "=", " ", "a", " ", "/", " ", "b", " ", " ", "#", " ", "ZeroDivisionError", " ", "13">>),
       Line(0, <<"div4", " ", "=", " ", "a", " ", "/", " ", "b", " ", " ", "#", " ", "ZeroDivisionError", " ", "14">>),
       Line(0, <<"div5", " ", "=", " ", "a", " ", "/", " ", "b", " ", " ", "#", " ", "ZeroDivisionError", " ", "15">>),
       Line(0, <<>>),
       Line(0, <<"p", " ", "=", " ", "50">>),
       Line(0, <<"q", " ", "=", " ", "0">>),
       Line(0, <<"div6", " ", "=", " ", "p", " ", "/", " ", "q", " ", " ", "#", " ", "ZeroDivisionError", " ", "16">>),
       Line(0, <<"div7", " ", "=", " ", "p", " ", "/", " ", "q", " ", " ", "#", " ", "ZeroDivisionError", " ", "17">>),
       Line(0, <<"div8", " ", "=", " ", "p", " ", "/", " ", "q", " ", " ", "#", " ", "ZeroDivisionError", " ", "18">>),
       Line(0, <<"div9", " ", "=", " ", "p", " ", "/", " ", "q", " ", " ", "#", " ", "ZeroDivisionError", " ", "19">>),
       Line(0, <<"div10", " ", "=", " ", "p", " ", "/", " ", "q", " ", " ", "#", " ", "ZeroDivisionError", " ", "20">>),
       Line(0, <<>>),
       Line(0, <<"#", " ", "Bug", " ", "cluster", " ", "6", ":", " ", "More", " ", "IndexErrors", " ", "-", " ", "12", " ", "bugs">>),
       Line(0, <<"list1", " ", "=", " ", "[", "]">>),
       Line(0, <<"e1", " ", "=", " ", "list1", "[", "0", "]", " ", " ", "#", " ", "IndexError", " ", "11">>),
       Line(0, <<"e2", " ", "=", " ", "list1", "[", "1", "]", " ", " ", "#", " ", "IndexError", " ", "12">>),
       Line(0, <<"e3", " ", "=", " ", "list1", "[", "2", "]", " ", " ", "#", " ", "IndexError", " ", "13">>),
       Line(0, <<>>),
       Line(0, <<"list2", " ", "=", " ", "[", "]">>),
       Line(0, <<"e4", " ", "=", " ", "list2", "[", "0", "]", " ", " ", "#", " ", "IndexError", " ", "14">>),
       Line(0, <<"e5", " ", "=", " ", "list2", "[", "1", "]", " ", " ", "#", " ", "IndexError", " ", "15">>),
       Line(0, <<"e6", " ", "=", " ", "list2", "[", "2", "]", " ", " ", "#", " ", "IndexError", " ", "16">>),
       Line(0, <<>>),
       Line(0, <<"list3", " ", "=", " ", "[", "]">>),
       Line(0, <<"e7", " ", "=", " ", "list3", "[", "0", "]", " ", " ", "#", " ", "IndexError", " ", "17">>),
       Line(0, <<"e8", " ", "=", " ", "list3", "[", "1", "]", " ", " ", "#", " ", "IndexError", " ", "18">>),
       Line(0, <<"e9", " ", "=", " ", "list3", "[", "2", "]", " ", " ", "#", " ", "IndexError", " ", "19">>),
       Line(0, <<>>),
       Line(0, <<"list4", " ", "=", " ", "[", "]">>),
       Line(0, <<"e10", " ", "=", " ", "list4", "[", "0", "]", " ", " ", "#", " ", "IndexError", " ", "20">>),
       Line(0, <<"e11", " ", "=", " ", "list4", "[", "1", "]", " ", " ", "#", " ", "IndexError", " ", "21">>),
       Line(0, <<"e12", " ", "=", " ", "list4", "[", "2", "]", " ", " ", "#", " ", "IndexError", " ", "22">>),
       Line(0, <<>>),
       Line(0, <<"print", "(", "\"", "If", " ", "you", " ", "see", " ", "this", ",", " ", "all", " ", "52", " ", "errors", " ", "are", " ", "fixed", "!", "\"", ")">>),
       Line(0, <<>>)
    >>

\* main's locals while it runs on nightmare_code.py: report is "RUNNING"
\* until the loop is left
Running(lines, runs, fixed) ==
    [report |-> "RUNNING", runs |-> runs, fixed_errors |-> fixed, content |-> lines]

\* main's loop from `if not error_type` on, for the parsed diagnostic
AfterParse(err, parsed, fixed, lines, runs) ==
    LET End(tag) == [report |-> tag, runs |-> runs, fixed_errors |-> fixed, content |-> lines]
        sig      == error_descriptor(parsed.error_type, parsed.error_line)
    IN  IF parsed.error_type = None THEN End("NO_TYPE")
        ELSE IF parsed.error_file = None \/ parsed.error_line = NoLine
                \/ parsed.error_line = 0 THEN End("NO_LOCATION")
        ELSE IF abspath(parsed.error_file) # abspath(script_path) THEN End("SKIP")
        ELSE IF InList(sig, fixed) THEN End("LOOP_DETECTED")
        ELSE The({ IF fix.ok THEN Running(fix.content, runs, Append(fixed, sig))
                   ELSE End("FAILED") :
                   fix \in {fix_error(lines, parsed.error_type, parsed.error_line, err)} })

\* the body of main's loop after the run: `err` is what the run returned,
\* `lines` the text fix_error reads; report is "RUNNING" after a patch
AfterRun(err, fixed, lines, runs) ==
    IF ~Truthy(err)
    THEN [report |-> "SUCCESS", runs |-> runs, fixed_errors |-> fixed, content |-> lines]
    ELSE The({ AfterParse(err, parsed, fixed, lines, runs) :
               parsed \in {parse_error(err.lines, script_path)} })

\* one pass of main's loop, the script run by Interpret, with `limit` as
\* max_iterations
LoopPass(r, limit) ==
    IF ~(r.runs < limit) THEN [r EXCEPT !.report = "TIMEOUT"]
    ELSE The({ AfterRun(run_and_capture_error(run.rc, run.err), r.fixed_errors, r.content,
                        r.runs + 1) :
               run \in {Interpret(r.content)} })

\* a session on a script of at most MaxScriptLines statements, or the call
\* of main on nightmare_code.py
InitScript ==
    /\ pc = "start"
    /\ iteration = 0
    /\ fixed_errors = <<>>
    /\ returncode = 0
    /\ stderr = NoneText
    /\ printed = {}
    /\ log = <<>>
    /\ \/ \E txts \in SeqsUpTo(Statements, MaxScriptLines) :
             LET script == [i \in 1..Len(txts) |-> Line(0, txts[i])]
             IN  /\ fs = [f \in Files |-> IF f = "/w/t.py" THEN script ELSE NoFile]
                 /\ orig = script
                 /\ probe = [op |-> "session", n |-> 1, converged |-> FALSE, patches |-> 0,
                             result |-> Running(<<>>, 0, <<>>)]
       \/ /\ fs = [f \in Files |-> IF f = "/w/t.py" THEN nightmare_code ELSE NoFile]
          /\ orig = nightmare_code
          /\ probe = [op |-> "main", n |-> 1, converged |-> FALSE, patches |-> 0,
                      result |-> Running(nightmare_code, 0, <<>>)]

\* stderr = run_and_capture_error(script_path), the script run by Interpret
RunProgram ==
    /\ pc = "loop"
    /\ probe.op = "session"
    /\ LoopCondition
    /\ iteration' = iteration + 1
    /\ \E run \in {Interpret(fs[abspath(script_path)])} :
          /\ returncode' = run.rc
          /\ stderr' = run_and_capture_error(run.rc, run.err)
    /\ log' = Append(log, [op |-> "run", arg |-> abspath(script_path), iteration |-> iteration + 1])
    /\ pc' = "ran"
    /\ UNCHANGED <<fs, fixed_errors, printed, orig, probe>>

\* main is started once more on the file the first session left
Rerun ==
    /\ pc = "done"
    /\ probe.op = "session"
    /\ probe.n = 1
    /\ probe' = [probe EXCEPT !.n = 2,
                              !.converged = ("SUCCESS" \in printed),
                              !.patches = Len(fixed_errors)]
    /\ orig' = fs[abspath(script_path)]
    /\ pc' = "start"
    /\ iteration' = 0
    /\ fixed_errors' = <<>>
    /\ returncode' = 0
    /\ stderr' = NoneText
    /\ printed' = {}
    /\ log' = <<>>
    /\ UNCHANGED fs

\* main on nightmare_code.py with the iteration limit of the source, one
\* pass of the loop at a time
CallMain ==
    /\ probe.op = "main"
    /\ probe.result.report = "RUNNING"
    /\ probe' = [probe EXCEPT !.result = LoopPass(probe.result, SourceMaxIterations)]
    /\ UNCHANGED SessionVars

StartSession == probe.op = "session" /\ CreateBackup

NextScript ==
    \/ StartSession
    \/ RunProgram
    \/ LoopExit
    \/ Converge
    \/ CycleDetected
    \/ FixApplied
    \/ FixRejected
    \/ Report
    \/ Rerun
    \/ CallMain

SpecScript == InitScript /\ [][NextScript]_vars

\* C12: when main is started again on a file its previous session left
\* Converged, the second session runs the script exactly once, calls
\* fix_error never, leaves the file as it found it and ends Converged in its
\* first iteration.
C12_RerunIsIdempotent ==
    (probe.op = "session" /\ probe.n = 2 /\ probe.converged) =>
        /\ fs[TargetFile] = orig
        /\ EventsOf("fix") = {}
        /\ EventsOf("write") = {}
        /\ fixed_errors = <<>>
        /\ Cardinality(EventsOf("run")) <= 1
        /\ Ended => /\ Cardinality(EventsOf("run")) = 1
                    /\ iteration = 1
                    /\ "SUCCESS" \in printed
                    /\ printed \cap (UnrecoverableTags \cup {"LOOP_DETECTED"}) = {}
        /\ pc = "done" => Outcomes = {"Converged"}

C12_Witness ==
    /\ probe.op = "session"
    /\ probe.n = 2
    /\ probe.converged
    /\ probe.patches >= 2
    /\ pc = "done"
    /\ fs[TargetFile] # fs[BackupFile] \/ fs[TargetFile] = orig

\* the lines of a script whose statement raises
FailingLines(lines) == {n \in 1..Len(lines) : Raises(lines[n]) # None}

\* the failure of line n is addressed by a rule that rewrites line n alone,
\* and the rewritten statement raises no more
WellAddressed(lines, n) ==
    LET r == fix_error(lines, Raises(lines[n]), n, NoneText)
    IN  /\ r.ok
        /\ r.scope = "line"
        /\ r.replaced = 1
        /\ Len(r.content) = Len(lines)
        /\ \A m \in 1..Len(lines) : m # n => r.content[m] = lines[m]
        /\ Raises(r.content[n]) = None

\* a script of independent failures: every statement that stops the run is a
\* failure addressed in this way
Independent(lines) ==
    \A n \in 1..Len(lines) : Stops(lines[n]) => (n \in FailingLines(lines) /\ WellAddressed(lines, n))

\* the i-th failing line from the top
NthFailing(lines, i) ==
    CHOOSE n \in FailingLines(lines) : Cardinality({m \in FailingLines(lines) : m < n}) = i - 1

FixEvents == SelectSeq(log, LAMBDA e : e.op = "fix")

\* a session on a script of k independent failures, k below max_iterations:
\* the i-th iteration patches the i-th failing line and nothing else, and the
\* session ends Converged after k patches and k + 1 runs
ConvergesInKPatches ==
    LET k == Cardinality(FailingLines(orig))
    IN  (probe.op = "session" /\ Independent(orig) /\ k < max_iterations) =>
            /\ Len(FixEvents) <= k
            /\ \A i \in 1..Len(FixEvents) :
                   /\ FixEvents[i].arg.ok
                   /\ FixEvents[i].iteration = i
                   /\ FixEvents[i].arg.sig =
                         <<Raises(orig[NthFailing(orig, i)]), NthFailing(orig, i)>>
            /\ Len(fs[TargetFile]) = Len(orig)
            /\ \A n \in 1..Len(orig) :
                   n \notin FailingLines(orig) => fs[TargetFile][n] = orig[n]
            /\ pc = "done" =>
                   /\ "SUCCESS" \in printed
                   /\ printed \cap (UnrecoverableTags \cup {"LOOP_DETECTED"}) = {}
                   /\ Len(fixed_errors) = k
                   /\ Cardinality(EventsOf("write")) = k
                   /\ Cardinality(EventsOf("run")) = k + 1
                   /\ FailingLines(fs[TargetFile]) = {}

\* main on nightmare_code.py has left its loop
MainReturned == probe.op = "main" /\ probe.result.report # "RUNNING"

\* the classes of the descriptors main recorded on nightmare_code.py
ClassesFixed ==
    {probe.result.fixed_errors[i][1] : i \in 1..Len(probe.result.fixed_errors)}

\* main converged on nightmare_code.py after n patches on n distinct lines
NightmareConvergesAfter(n) ==
    MainReturned =>
        /\ probe.result.report = "SUCCESS"
        /\ Len(probe.result.fixed_errors) = n
        /\ probe.result.runs = n + 1
        /\ \A i, j \in 1..Len(probe.result.fixed_errors) :
               probe.result.fixed_errors[i][2] = probe.result.fixed_errors[j][2] => i = j
        /\ ClassesFixed = {"KeyError", "ZeroDivisionError", "IndexError"}
        /\ Len(probe.result.content) = Len(nightmare_code)

Second(pc2, runs, fixed, err, lines, report) ==
    [pc |-> pc2, runs |-> runs, fixed_errors |-> fixed, stderr |-> err,
     lines |-> lines, report |-> report]

\* the scripts the two sessions work on: two statements, or three failing ones
TwoScripts ==
    { << Line(0, a), Line(0, b) >> :
         a \in {LiteralAccess, DivNames, Assign}, b \in {LiteralAccess, IndexAccess, Assign} }
    \cup { << Line(0, LiteralAccess), Line(0, DivNames), Line(0, IndexAccess) >> }

InitTwo ==
    /\ pc = "start"
    /\ iteration = 0
    /\ fixed_errors = <<>>
    /\ returncode = 0
    /\ stderr = NoneText
    /\ printed = {}
    /\ log = <<>>
    /\ \E script \in TwoScripts :
          /\ fs = [f \in Files |-> IF f = "/w/t.py" THEN script ELSE NoFile]
          /\ orig = script
    /\ probe = [op |-> "session", n |-> 1, converged |-> FALSE, patches |-> 0,
                result |-> Running(<<>>, 0, <<>>),
                second |-> Second("idle", 0, <<>>, NoneText, <<>>, "RUNNING")]

\* the second main: shutil.copy2(script_path, backup_path)
Start2 ==
    /\ probe.op = "session"
    /\ probe.second.pc = "idle"
    /\ fs' = [fs EXCEPT ![abspath(backup_path)] = fs[abspath(script_path)]]
    /\ probe' = [probe EXCEPT !.second.pc = "loop"]
    /\ UNCHANGED SessionVarsButFs

\* the second main: the loop test and the run of the script
Run2 ==
    /\ probe.op = "session"
    /\ probe.second.pc = "loop"
    /\ \E run \in {Interpret(fs[abspath(script_path)])} :
           probe' = IF probe.second.runs < max_iterations
                    THEN [probe EXCEPT !.second.pc = "ran",
                                       !.second.runs = probe.second.runs + 1,
                                       !.second.stderr = run_and_capture_error(run.rc, run.err)]
                    ELSE [probe EXCEPT !.second.pc = "done",
                                       !.second.report = "TIMEOUT"]
    /\ UNCHANGED <<fs, SessionVarsButFs>>

\* the second main: fix_error reads the file (lines 811-813)
Read2 ==
    /\ probe.op = "session"
    /\ probe.second.pc = "ran"
    /\ probe' = [probe EXCEPT !.second.pc = "read",
                              !.second.lines = fs[abspath(script_path)]]
    /\ UNCHANGED <<fs, SessionVarsButFs>>

\* the second main: the rest of the pass on the lines read; a patch is
\* written to the file (lines 883-885)
Write2 ==
    /\ probe.op = "session"
    /\ probe.second.pc = "read"
    /\ \E r \in {AfterRun(probe.second.stderr, probe.second.fixed_errors,
                          probe.second.lines, probe.second.runs)} :
           IF r.report = "RUNNING"
           THEN /\ fs' = [fs EXCEPT ![abspath(script_path)] = r.content]
                /\ probe' = [probe EXCEPT !.second.pc = "loop",
                                          !.second.fixed_errors = r.fixed_errors]
           ELSE /\ fs' = fs
                /\ probe' = [probe EXCEPT !.second.pc = "done",
                                          !.second.report = r.report]
    /\ UNCHANGED SessionVarsButFs

NextTwo ==
    \/ StartSession
    \/ RunProgram
    \/ LoopExit
    \/ Converge
    \/ CycleDetected
    \/ FixApplied
    \/ FixRejected
    \/ Report
    \/ Start2
    \/ Run2
    \/ Read2
    \/ Write2

SpecTwo == InitTwo /\ [][NextTwo]_vars

\* a session is between its backup creation and its end
FirstActive == pc \in {"loop", "ran", "after"}
SecondActive == probe.second.pc \in {"loop", "ran", "read"}

\* the lines both sessions recorded as patched
Recorded ==
    {fixed_errors[i] : i \in 1..Len(fixed_errors)}
    \cup {probe.second.fixed_errors[i] : i \in 1..Len(probe.second.fixed_errors)}

\* C14 (as claimed): the two sessions never overlap; hence the backup always
\* holds the text from before the first patch, and every line a session
\* recorded as patched is still patched in the file.
C14_SessionsExclusive ==
    /\ ~(FirstActive /\ SecondActive)
    /\ fs[BackupFile] # NoFile => fs[BackupFile] = orig
    /\ \A sig \in Recorded : Raises(fs[TargetFile][sig[2]]) = None

\* the consequences alone (each is violated by an interleaving)
C14_BackupIsOriginal == fs[BackupFile] # NoFile => fs[BackupFile] = orig
C14_NoPatchLost == \A sig \in Recorded : Raises(fs[TargetFile][sig[2]]) = None

(***************************************************************************)
(* adaptive_error_handler.py: one call of a function wrapped by the        *)
(* decorator, or one with block of AdaptiveErrorContext, under a value of  *)
(* APP_MODE.  The body returns or raises; a raised exception reaches the   *)
(* handler of the mode, which saves an ErrorPattern and then re-raises     *)
(* (development) or returns (production).                                  *)
(***************************************************************************)
\* str.lower() on the values of APP_MODE the model draws
Lower(s) == CASE s = "DEBUG" -> "debug"
              [] s = "Dev"   -> "dev"
              [] OTHER       -> s

APP_MODES == {"production", "development", "dev", "debug", "DEBUG", "Dev", "staging"}

\* IS_DEV = APP_MODE.lower() in ("development", "dev", "debug")
IS_DEV(APP_MODE) == Lower(APP_MODE) \in {"development", "dev", "debug"}

\* what the body raises: subclasses of Exception, and the two classes that
\* derive from BaseException only
ExceptionClasses == {"ValueError", "ZeroDivisionError"}
BaseOnlyClasses == {"KeyboardInterrupt", "SystemExit"}

\* the `context` argument of the decorator: None, a dict json can dump, a
\* dict holding an object json cannot dump
Contexts == {None, "dict", "dict_with_object"}

\* the fallback_value argument
Fallbacks == {None, "FB"}

\* ErrorPattern(error, context).save_pattern(): opens LOG_DIR /
\* "error_patterns.jsonl" for append, relative to the current directory,
\* then dumps the pattern; returns what it raised and the file afterwards
save_pattern(error, context, logs_dir, patterns) ==
    IF ~logs_dir THEN [raised |-> "FileNotFoundError", patterns |-> patterns]
    ELSE IF context = "dict_with_object"
         THEN [raised |-> "TypeError", patterns |-> patterns]
         ELSE [raised |-> None,
               patterns |-> Append(patterns, [error_type |-> error, context |-> context])]

\* `context or {"function": ..., "args_count": ..., "kwargs_keys": ...}`
error_context(context) == IF context = None THEN "dict" ELSE context

InitHandler ==
    /\ \E via \in {"decorator", "context"} : \E mode \in APP_MODES :
       \E raises \in {None} \cup ExceptionClasses \cup BaseOnlyClasses :
       \E context \in Contexts : \E fallback \in Fallbacks : \E logs \in BOOLEAN :
          probe = [op |-> "handler", via |-> via, APP_MODE |-> mode,
                   raises |-> raises,
                   context |-> IF via = "decorator" THEN context ELSE None,
                   fallback_value |-> fallback, logs_dir |-> logs,
                   pc |-> "call", error |-> None, error_context |-> None,
                   patterns |-> <<>>, outcome |-> None, value |-> None]
    /\ fs = [f \in Files |-> NoFile]
    /\ orig = <<>>
    /\ pc = "probe"
    /\ iteration = 1
    /\ fixed_errors = <<>>
    /\ returncode = 0
    /\ stderr = NoneText
    /\ printed = {}
    /\ log = <<>>

\* func(*args, **kwargs), or the body of the with block
Body ==
    /\ probe.op = "handler" /\ probe.pc = "call"
    /\ probe' = IF probe.via = "decorator" /\ probe.raises = None
                THEN [probe EXCEPT !.pc = "done", !.outcome = "returned",
                                   !.value = "result"]
                ELSE [probe EXCEPT !.pc = IF probe.via = "decorator"
                                          THEN "raised" ELSE "exit",
                                   !.error = probe.raises]
    /\ UNCHANGED SessionVars

\* wrapper's `except Exception as error`: any other exception leaves wrapper
WrapperExcept ==
    /\ probe.op = "handler" /\ probe.pc = "raised"
    /\ probe' = IF probe.error \in ExceptionClasses
                THEN [probe EXCEPT !.pc = "handle",
                                   !.error_context = error_context(probe.context)]
                ELSE [probe EXCEPT !.pc = "done", !.outcome = "propagated"]
    /\ UNCHANGED SessionVars

\* AdaptiveErrorContext.__exit__ up to the test of IS_DEV
Exit ==
    /\ probe.op = "handler" /\ probe.pc = "exit"
    /\ probe' = IF probe.error = None
                THEN [probe EXCEPT !.pc = "done", !.outcome = "returned",
                                   !.value = "after"]
                ELSE [probe EXCEPT !.pc = "handle", !.error_context = "dict"]
    /\ UNCHANGED SessionVars

\* DevelopmentErrorHandler.handle: save the pattern under the caller's
\* context, then the bare raise re-raises the exception being handled; an
\* exception of save_pattern leaves the handler in its place
DevelopmentErrorHandler ==
    /\ probe.op = "handler" /\ probe.pc = "handle" /\ IS_DEV(probe.APP_MODE)
    /\ \E r \in {save_pattern(probe.error, probe.error_context,
                              probe.logs_dir, probe.patterns)} :
          probe' = [probe EXCEPT !.pc = "done", !.outcome = "propagated",
                                 !.patterns = r.patterns,
                                 !.error = IF r.raised = None THEN probe.error
                                           ELSE r.raised]
    /\ UNCHANGED SessionVars

\* ProductionErrorHandler.handle: save the pattern under the handler's own
\* two-key context and return None; wrapper then returns
\* `None or fallback_value`, __exit__ returns True
ProductionErrorHandler ==
    /\ probe.op = "handler" /\ probe.pc = "handle" /\ ~IS_DEV(probe.APP_MODE)
    /\ \E r \in {save_pattern(probe.error, "dict", probe.logs_dir, probe.patterns)} :
          probe' = IF r.raised # None
                   THEN [probe EXCEPT !.pc = "done", !.outcome = "propagated",
                                      !.error = r.raised]
                   ELSE IF probe.via = "decorator"
                        THEN [probe EXCEPT !.pc = "done", !.outcome = "returned",
                                           !.patterns = r.patterns,
                                           !.value = probe.fallback_value]
                        ELSE [probe EXCEPT !.pc = "done", !.outcome = "suppressed",
                                           !.patterns = r.patterns,
                                           !.value = "after"]
    /\ UNCHANGED SessionVars

NextHandler ==
    \/ Body
    \/ WrapperExcept
    \/ Exit
    \/ DevelopmentErrorHandler
    \/ ProductionErrorHandler

SpecHandler == InitHandler /\ [][NextHandler]_vars

\* the call has ended and its body had raised
HandledRaise == probe.op = "handler" /\ probe.pc = "done" /\ probe.raises # None

\* the pattern of the raised exception is in error_patterns.jsonl
PatternSaved ==
    \E i \in 1..Len(probe.patterns) : probe.patterns[i].error_type = probe.raises

\* C15 (as claimed): in production mode an exception raised in the wrapped
\* function or in the with block is never propagated (the decorator returns
\* the fallback value, the context manager suppresses it); in development
\* mode the same exception is always propagated, after its pattern was saved.
C15_ModeDecidesPropagation ==
    HandledRaise =>
        IF IS_DEV(probe.APP_MODE)
        THEN /\ probe.outcome = "propagated"
             /\ probe.error = probe.raises
             /\ PatternSaved
        ELSE /\ probe.outcome # "propagated"
             /\ probe.via = "decorator" =>
                   probe.outcome = "returned" /\ probe.value = probe.fallback_value
             /\ probe.via = "context" => probe.outcome = "suppressed"

\* the part of C15 that holds: a subclass of Exception, with a context json
\* can dump and logs/ reachable from the current directory
C15_WhenHandlerSucceeds ==
    (/\ HandledRaise
     /\ probe.raises \in ExceptionClasses
     /\ probe.logs_dir
     /\ probe.context # "dict_with_object") => C15_ModeDecidesPropagation

(***************************************************************************)
(* Sessions on scripts that define and call a function.  A name assigned   *)
(* or deleted at the level of the function's body is local to it; reading  *)
(* it while it is unbound raises UnboundLocalError.  The lines outside a   *)
(* function run as the statements of Interpret.                            *)
(***************************************************************************)
\* def f():
DefLine(name) == <<"def", " ", name, "(", ")", ":">>
\* f()
CallLine(name) == <<name, "(", ")">>
\* print(v)
PrintVar(v) == <<"print", "(", v, ")">>
\* v = 1
AssignVar(v) == <<v, " ", "=", " ", "1">>
\* del v
DelVar(v) == <<"del", " ", v>>
\* a one-line docstring
Docstring == <<"\"", "\"", "\"", "doc", "\"", "\"", "\"">>
\* pass
Pass == <<"pass">>
\* subtotal = None  # Initialize
SubtotalInit == <<"subtotal", " ", "=", " ", "None", " ", " ", "#", " ", "Initialize">>

\* the def statements at the top level
DefLines(lines) == {d \in 1..Len(lines) : lines[d].ind = 0 /\ IsDef(lines[d])}

\* the lines of the body of the def at line d
BodyOf(lines, d) ==
    {n \in (d + 1)..Len(lines) :
        \A m \in (d + 1)..n : IsBlank(lines[m]) \/ lines[m].ind > lines[d].ind}

\* the statements of that body itself, not of a def nested in it
BodyLevel(lines, d) ==
    {n \in BodyOf(lines, d) : ~IsBlank(lines[n]) /\ lines[n].ind = lines[d].ind + 4}

InsideDef(lines, n) == \E d \in DefLines(lines) : n \in BodyOf(lines, d)

\* line n calls the function defined at the lines Callee(lines, n)
Callee(lines, n) ==
    {d \in DefLines(lines) : d < n /\ Code(lines[n].txt) = CallLine(lines[d].txt[3])}

IsAssignOf(line, v) ==
    LET s == Code(line.txt)
    IN  Len(s) >= 3 /\ s[1] = v /\ s[2] = " " /\ s[3] = "="
IsDelOf(line, v) == Code(line.txt) = DelVar(v)

\* v is bound when line n of the body of d is reached
BoundBefore(lines, d, n, v) ==
    LET ms == {m \in BodyLevel(lines, d) :
                  m < n /\ (IsAssignOf(lines[m], v) \/ IsDelOf(lines[m], v))}
    IN  ms # {} /\ IsAssignOf(lines[Max(ms)], v)

\* the statements of the body of d that read a local name while it is unbound
UnboundUses(lines, d) ==
    {n \in BodyLevel(lines, d) :
        /\ Len(lines[n].txt) = 4
        /\ Code(lines[n].txt) = PrintVar(lines[n].txt[3])
        /\ \E m \in BodyLevel(lines, d) :
              IsAssignOf(lines[m], lines[n].txt[3]) \/ IsDelOf(lines[m], lines[n].txt[3])
        /\ ~BoundBefore(lines, d, n, lines[n].txt[3])}

\* the top-level statement at line n stops the run
StopsRun(lines, n) ==
    /\ ~InsideDef(lines, n)
    /\ IF Callee(lines, n) # {}
       THEN UnboundUses(lines, Max(Callee(lines, n))) # {}
       ELSE Stops(lines[n])

\* the outcome of a run that stops in the call at line n
StopsInCall(lines, n) ==
    The({ [rc |-> 1,
           err |-> << TracebackHeader, FrameLine(script_path, n), FrameLine(script_path, m),
                      UnboundLocalLine(lines[m].txt[3]) >>] :
          m \in {Min(UnboundUses(lines, Max(Callee(lines, n))))} })

\* python script_path, for a script with functions
Execute(lines) ==
    The({ IF stops = {} THEN [rc |-> 0, err |-> <<>>]
          ELSE IF Callee(lines, Min(stops)) # {} THEN StopsInCall(lines, Min(stops))
          ELSE StopsAt(lines, Min(stops)) :
          stops \in {{n \in 1..Len(lines) : StopsRun(lines, n)}} })

\* the bodies of the function f the sessions start from: an optional
\* docstring, an optional nested def, what precedes the use of v, the use
\* and the assignment that makes v local
FunctionBodies(v) ==
    { doc \o nested \o pre \o << Line(4, PrintVar(v)), Line(4, AssignVar(v)) >> :
        doc \in { <<>>, <<Line(4, Docstring)>> },
        nested \in { <<>>, <<Line(4, DefLine("g")), Line(8, Pass)>> },
        pre \in { <<>>,
                  <<InitLine(4, v), Line(4, DelVar(v))>>,
                  <<Line(4, SubtotalInit)>> } }

\* what follows the call of f at the top level
Tails ==
    { <<>>, <<Line(0, LiteralAccess)>>, <<Line(0, DivZeroTight)>>,
      <<Line(0, LiteralAccess), Line(0, DivNames)>> }

FunctionScripts ==
    { <<Line(0, DefLine("f"))>> \o body \o <<Line(0, CallLine("f"))>> \o tail :
        body \in FunctionBodies("x") \cup FunctionBodies("total"), tail \in Tails }

InitFunction ==
    /\ pc = "start"
    /\ iteration = 0
    /\ fixed_errors = <<>>
    /\ returncode = 0
    /\ stderr = NoneText
    /\ printed = {}
    /\ log = <<>>
    /\ probe = [op |-> "functions"]
    /\ \E script \in FunctionScripts :
          /\ fs = [f \in Files |-> IF f = "/w/t.py" THEN script ELSE NoFile]
          /\ orig = script

\* a run that executes the backup copy instead of the script
RunFunctions_Backup ==
    /\ pc = "loop"
    /\ probe.op = "functions"
    /\ LoopCondition
    /\ iteration' = iteration + 1
    /\ \E run \in {Execute(fs[abspath(backup_path)])} :
          /\ returncode' = run.rc
          /\ stderr' = run_and_capture_error(run.rc, run.err)
    /\ log' = Append(log, [op |-> "run", arg |-> abspath(script_path), iteration |-> iteration + 1])
    /\ pc' = "ran"
    /\ UNCHANGED <<fs, fixed_errors, printed, orig, probe>>

\* stderr = run_and_capture_error(script_path), the script run by Execute
RunFunctions ==
    /\ pc = "loop"
    /\ probe.op = "functions"
    /\ LoopCondition
    /\ iteration' = iteration + 1
    /\ \E run \in {Execute(fs[abspath(script_path)])} :
          /\ returncode' = run.rc
          /\ stderr' = run_and_capture_error(run.rc, run.err)
    /\ log' = Append(log, [op |-> "run", arg |-> abspath(script_path), iteration |-> iteration + 1])
    /\ pc' = "ran"
    /\ UNCHANGED <<fs, fixed_errors, printed, orig, probe>>

NextFunction ==
    \/ CreateBackup
    \/ RunFunctions
    \/ LoopExit
    \/ Converge
    \/ CycleDetected
    \/ FixApplied
    \/ FixRejected
    \/ Report

SpecFunction == InitFunction /\ [][NextFunction]_vars

\* the diagnostic names an UnboundLocalError in the script, and the special
\* handler finds the initializer of the variable already in place
AlreadyInitialized ==
    /\ InTargetScript
    /\ Parsed.error_type = "UnboundLocalError"
    /\ Parsed.error_line \in 1..Len(fs[TargetFile])
    /\ fix_unbound_local_error(fs[TargetFile], Parsed.error_line,
                               get_indent(fs[TargetFile][Parsed.error_line]),
                               stderr).returned = "False"

\* C17 (as claimed): when the initializer of the variable already exists near
\* the function header, the patch is a no-op success: fix_error returns True,
\* the file is unchanged, and the session goes on to the next iteration
\* instead of ending Unrecoverable.
C17_InitializedIsNoOpSuccess ==
    [][(pc = "ran" /\ ~AlreadyFixed /\ AlreadyInitialized) =>
          /\ FixResult.ok
          /\ fs' = fs
          /\ pc' = "loop"
          /\ "FAILED" \notin printed']_vars

\* what the code does in that case: fix_error returns False and the session
\* ends with the report [FAILED]
C17_InitializedIsRejected ==
    [][(pc = "ran" /\ ~AlreadyFixed /\ AlreadyInitialized) =>
          /\ ~FixResult.ok
          /\ fs' = fs
          /\ pc' = "after"
          /\ "FAILED" \in printed']_vars

(***************************************************************************)
(* fix_error on a file system that refuses to let the file grow beyond a   *)
(* size limit (RLIMIT_FSIZE, a quota, a full disk), sizes counted in       *)
(* lines.  The try statement of a rule covers the transform, the splice    *)
(* and the write; whatever raises in it, the except clause prints the      *)
(* error and continues with the next rule.  The failing lines open no      *)
(* block, so that every attempt replaces the same element of `lines`.      *)
(***************************************************************************)
\* no limit on the size of the file
Unlimited == 99

\* the result of fix_error: `raised` lists the rules whose try statement
\* raised, and where
Attempt(ok, content, pattern, raised) ==
    [ok |-> ok, content |-> content, pattern |-> pattern, raised |-> raised]

\* the for loop from pattern_idx on; `file` is what the file holds by now
RECURSIVE TryPatternsLimited(_, _, _, _, _, _, _, _)
TryPatternsLimited(lines, error_type, line_number, error_message, pattern_idx, limit, file, raised) ==
    IF pattern_idx > Len(ERROR_DATABASE[error_type])
    THEN Attempt(FALSE, file, 0, raised)
    ELSE IF ~Detect(ERROR_DATABASE[error_type][pattern_idx], lines[line_number])
    THEN TryPatternsLimited(lines, error_type, line_number, error_message,
                            pattern_idx + 1, limit, file, raised)
    ELSE The({
        IF r.ok /\ Len(r.content) <= limit
        THEN \* the write succeeds: return True
             Attempt(TRUE, r.content, pattern_idx, raised)
        ELSE IF r.ok
        THEN \* open(file_path, 'w') truncates, the write stops at the limit
             \* with OSError: except Exception, continue
             TryPatternsLimited(lines, error_type, line_number, error_message,
                                pattern_idx + 1, limit, Prefix(r.content, limit),
                                Append(raised, [pattern |-> pattern_idx, in |-> "write"]))
        ELSE IF ERROR_DATABASE[error_type][pattern_idx].fix = "special_unbound_local"
                /\ LocalVariable(error_message) = RaisedTypeError
        THEN \* the special handler raises TypeError: except Exception, continue
             TryPatternsLimited(lines, error_type, line_number, error_message,
                                pattern_idx + 1, limit, file,
                                Append(raised, [pattern |-> pattern_idx, in |-> "transform"]))
        ELSE \* the special handler returned a false value: continue
             TryPatternsLimited(lines, error_type, line_number, error_message,
                                pattern_idx + 1, limit, file, raised) :
        r \in {ApplyPattern(lines, error_type, line_number, error_message, pattern_idx)} })

\* fix_error on a file that cannot grow beyond `limit` lines
fix_error_limited(lines, error_type, line_number, error_message, limit) ==
    IF error_type \notin DOMAIN ERROR_DATABASE THEN Attempt(FALSE, lines, 0, <<>>)
    ELSE IF lines = NoFile THEN Attempt(FALSE, lines, 0, <<>>)
    ELSE IF line_number > Len(lines) \/ line_number < 1 THEN Attempt(FALSE, lines, 0, <<>>)
    ELSE TryPatternsLimited(lines, error_type, line_number, error_message, 1,
                            limit, lines, <<>>)

\* y = np.ceil(a / b)
CeilCall == <<"y", " ", "=", " ", "np", ".", "ceil", "(", "a", " ", "/", " ", "b", ")">>
\* a[i]
NameIndex == <<"a", "[", "i", "]">>

\* the failing statements of the limited calls
LimitedStatements ==
    { ChainedAccess, LiteralAccess, VariableAccess, CeilCall, DivNames, DivZeroLit,
      IndexAccess, NameIndex, PopCall, PrintVar("x") }

\* the messages fix_error is called with: None, a traceback without and with
\* the name of a local variable
Messages ==
    { NoneText,
      Text(<<TracebackHeader, TextLine(TRUE, <<"KeyError">>)>>),
      Text(<<TracebackHeader, UnboundLocalLine("x")>>) }

\* a script of two statements, the first failing with a registered class
InitLimited ==
    /\ NoSession
    /\ \E txt \in LimitedStatements, error_type \in DOMAIN ERROR_DATABASE,
          limit \in {2, 3, 4, Unlimited}, error_message \in Messages :
          probe = [op |-> "limited", done |-> FALSE,
                   lines |-> <<Line(0, txt), Line(0, Assign)>>,
                   error_type |-> error_type, line_number |-> 1,
                   error_message |-> error_message, limit |-> limit,
                   result |-> Attempt(FALSE, <<>>, 0, <<>>)]

\* fix_error(file_path, error_type, line_number, error_message)
CallLimited ==
    /\ probe.op = "limited"
    /\ ~probe.done
    /\ probe' = [probe EXCEPT !.done = TRUE,
                              !.result = fix_error_limited(probe.lines, probe.error_type,
                                             probe.line_number, probe.error_message,
                                             probe.limit)]
    /\ UNCHANGED SessionVars

SpecLimited == InitLimited /\ [][CallLimited]_vars

\* the try statement of the selected rule (the first rule whose trigger
\* matches the failing line) raised
SelectedRuleRaised ==
    /\ probe.op = "limited" /\ probe.done
    /\ MatchingRules # {}
    /\ probe.result.raised # <<>>
    /\ probe.result.raised[1].pattern = Min(MatchingRules)

C16_RaisingTransformFails ==
    (SelectedRuleRaised /\ probe.result.raised[1].in = "transform") =>
        /\ ~probe.result.ok
        /\ probe.result.pattern = 0
        /\ probe.result.content = probe.lines

(***************************************************************************)
(* The text a block-scope patch leaves in place of the span.               *)
(***************************************************************************)
\* the lines of the span before the patch
Span == SubSeq(probe.lines, SpanFirst, SpanLast)

\* C18 (as claimed): every blank line of the replaced span is still a blank
\* line of the wrapped block, at its position after the added try line.
C18_BlankLinesKept ==
    BlockPatched =>
        \A i \in SpanFirst..SpanLast :
            IsBlank(probe.lines[i]) =>
                /\ i + 1 <= Len(probe.result.content)
                /\ IsBlank(probe.result.content[i + 1])

\* what the code does: the blank lines of the span are dropped, the wrapped
\* block holds the non-blank lines of the span only
C18_BlankLinesDropped ==
    BlockPatched =>
        LET kept == SelectSeq(Span, LAMBDA l : ~IsBlank(l))
        IN  /\ Len(probe.result.content) = Len(probe.lines) - Len(Span) + Len(kept) + 3
            /\ \A k \in 0..(Len(kept) + 2) :
                   ~IsBlank(probe.result.content[SpanFirst + k])

\* the non-blank lines of the span, in order
SpanNonBlank == SelectSeq(Span, LAMBDA l : ~IsBlank(l))

\* C20: in a wrapped block every non-blank line of the span is written 4
\* columns deeper than it was, so its extra indentation relative to the
\* header is unchanged, and the try and except lines stand at the header's
\* indentation.
C20_ReindentedOneLevel ==
    BlockPatched =>
        LET base   == Indentation(probe.lines[SpanFirst])
            out    == probe.result.content
            n      == Len(SpanNonBlank)
        IN  /\ Len(out) >= SpanFirst + n + 2
            /\ out[SpanFirst] = Line(base, <<"try", ":">>)
            /\ \A k \in 1..n :
                   /\ out[SpanFirst + k].txt = SpanNonBlank[k].txt
                   /\ Indentation(out[SpanFirst + k]) = Indentation(SpanNonBlank[k]) + 4
                   /\ Indentation(out[SpanFirst + k]) - Indentation(out[SpanFirst + 1])
                         = Indentation(SpanNonBlank[k]) - base
            /\ Indentation(out[SpanFirst + n + 1]) = base
            /\ out[SpanFirst + n + 1].txt =
                  <<"except", " ", probe.error_type, ":">>
            /\ out[SpanFirst + n + 2] = Line(base + 4, <<"return", " ", "{", "}">>)

C20_Witness ==
    /\ BlockPatched
    /\ Indentation(probe.lines[SpanFirst]) = 4
    /\ Len(SpanNonBlank) = 3
    /\ Indentation(SpanNonBlank[2]) = 8
    /\ \E i \in SpanFirst..SpanLast : IsBlank(probe.lines[i])
    /\ Indentation(probe.result.content[SpanFirst + 2]) = 12

\* the texts of a sequence of lines, without their indentation
Texts(lines) == [i \in 1..Len(lines) |-> lines[i].txt]

\* a is b with some elements left out
RECURSIVE IsSubsequence(_, _)
IsSubsequence(a, b) ==
    IF a = <<>> THEN TRUE
    ELSE IF b = <<>> THEN FALSE
    ELSE IF Head(a) = Head(b) THEN IsSubsequence(Tail(a), Tail(b))
    ELSE IsSubsequence(a, Tail(b))

\* main is about to call fix_error and the call patches a block-scope span
BlockFixDue ==
    /\ pc = "ran"
    /\ InTargetScript
    /\ ~AlreadyFixed
    /\ FixResult.ok
    /\ FixResult.scope = "block"

\* the span the call replaces, and the length of the text that replaces it
DueSpan ==
    SubSeq(fs[TargetFile], Parsed.error_line, Parsed.error_line + FixResult.replaced - 1)
DueLength == Len(FixResult.content) - Len(fs[TargetFile]) + FixResult.replaced

\* every non-blank line of the span is in the text that replaces it, in order
SpanTextKept ==
    IsSubsequence(Texts(SelectSeq(DueSpan, LAMBDA l : ~IsBlank(l))),
                  Texts(SubSeq(fs'[TargetFile], Parsed.error_line,
                               Parsed.error_line + DueLength - 1)))

\* C19 (as claimed): a block-scope patch loses no source text, whatever the
\* failure class of the rule applied to the block-opening line: every
\* non-blank line of the replaced span is in the replacement, in order.
C19_BlockPatchKeepsText ==
    [][BlockFixDue => SpanTextKept]_vars

\* what holds: the span is kept for the classes fix_error wraps as a block
C19_WrappedClassesKeepText ==
    [][(BlockFixDue /\ Parsed.error_type \in BlockWrapClasses) => SpanTextKept]_vars

(***************************************************************************)
(* The splice of fix_error (C21): what a patch leaves alone.               *)
(***************************************************************************)
\* main is about to call fix_error and the call replaces a line or a block
SpanPatchDue ==
    /\ pc = "ran"
    /\ InTargetScript
    /\ ~AlreadyFixed
    /\ FixResult.ok
    /\ FixResult.scope \in {"line", "wrap", "block"}

\* the number of lines of the computed span: the block found by
\* get_indented_block for a block patch, one line otherwise
ComputedSpanLength ==
    IF FixResult.scope = "block"
    THEN Len(get_indented_block(fs[TargetFile], Parsed.error_line - 1).block_lines)
    ELSE 1

\* the text the transform of the applied rule returns for the span, as the
\* lines that are written
PatchOutput ==
    LET lines    == fs[TargetFile]
        target   == lines[Parsed.error_line]
        rule     == ERROR_DATABASE[Parsed.error_type][FixResult.pattern]
        block    == get_indented_block(lines, Parsed.error_line - 1)
    IN  IF FixResult.scope # "block"
        THEN Fix(rule, target, get_indent(target), stderr)
        ELSE SelectSeq(IF Parsed.error_type \in BlockWrapClasses
                       THEN wrap_block_in_try_except(block.block_lines, block.base_indent,
                                                     <<Parsed.error_type>>)
                       ELSE Fix(rule, target, get_indent(target), stderr),
                       IsNonEmptyString)

\* the new file is lines 1..n-1 of the old file, then the output, then the
\* lines of the old file after the span of k lines
FrameKept(old, new, n, k, output) ==
    /\ n + k - 1 <= Len(old)
    /\ new = SubSeq(old, 1, n - 1) \o output \o SubSeq(old, n + k, Len(old))

\* C21: a line or block patch replaces exactly the computed span (one line,
\* or the block's line count) by the transform's output: every line before
\* the failing line and every line after the span is in the written file,
\* unchanged and in order, and no line of the span is.
C21_SpanReplacedExactly ==
    [][SpanPatchDue =>
          /\ FixResult.replaced = ComputedSpanLength
          /\ FrameKept(fs[TargetFile], fs'[TargetFile], Parsed.error_line,
                       ComputedSpanLength, PatchOutput)
          /\ \A f \in Files \ {TargetFile} : fs'[f] = fs[f]]_vars

\* a block of two lines was replaced at line 2 of a file that had a line
\* before it and lines after it
C21_Witness ==
    /\ pc = "loop"
    /\ Len(log) >= 2
    /\ log[Len(log) - 1].op = "fix"
    /\ log[Len(log) - 1].arg.scope = "block"
    /\ log[Len(log) - 1].arg.replaced = 2
    /\ log[Len(log) - 1].arg.sig[2] = 2
    /\ Len(fs[TargetFile]) >= 7
    /\ fs[TargetFile][1] = Line(0, <<"try", ":">>)
    /\ fs[TargetFile][Len(fs[TargetFile])] = Line(0, LiteralAccess)

(***************************************************************************)
(* Where _fix_unbound_local_error puts the initializer (C22).              *)
(***************************************************************************)
\* main is about to call fix_error and the special handler inserts a line
PrependDue ==
    /\ pc = "ran"
    /\ InTargetScript
    /\ ~AlreadyFixed
    /\ FixResult.ok
    /\ FixResult.scope = "prepend"

\* the def statements, at any depth, whose body holds line n
EnclosingDefs(lines, n) ==
    {d \in 1..(n - 1) : IsDef(lines[d]) /\ n \in BodyOf(lines, d)}

\* `new` is `old` with `line` inserted as line p
Inserted(old, new, p, line) ==
    new = SubSeq(old, 1, p - 1) \o <<line>> \o SubSeqFrom(old, p)

\* the initializer is the first statement of the function whose body holds
\* the failing line: it follows the header and the docstring, at the depth
\* of the body, and precedes the failing line
InsertedInEnclosingScope ==
    LET lines == fs[TargetFile]
        n     == Parsed.error_line
    IN  /\ EnclosingDefs(lines, n) # {}
        /\ LET d == Max(EnclosingDefs(lines, n))
               p == InsertIdx(lines, d - 1) + 1
           IN  /\ Inserted(lines, fs'[TargetFile], p,
                           InitLine(lines[d].ind + 4, LocalVariable(stderr)))
               /\ d < p
               /\ p <= n

\* a def statement lies between the header of the enclosing function and the
\* failing line
DefBeforeFailingLine ==
    LET lines == fs[TargetFile]
        n     == Parsed.error_line
    IN  \E d \in EnclosingDefs(lines, n) : \E m \in (d + 1)..n : IsDef(lines[m])

\* C22 (as claimed): the initializer is inserted inside the function whose
\* body contains the failing line, after its header and its docstring and
\* not after the failing line; the header found is never that of a function
\* defined earlier.
C22_InitializerInEnclosingScope ==
    [][PrependDue => InsertedInEnclosingScope]_vars

\* what holds: the claim, when no def statement stands between the header of
\* the enclosing function and the failing line
C22_WithoutInterveningDef ==
    [][(PrependDue /\ ~DefBeforeFailingLine) => InsertedInEnclosingScope]_vars

(***************************************************************************)
(* Direct calls of parse_error on drawn diagnostic texts: the lines of one *)
(* traceback or of several chained ones, in any order and number.          *)
(***************************************************************************)
\* number of lines of the texts SpecParse draws
MaxTextLines == 4

\* the last line of a traceback whose class neither is registered nor ends
\* in 'Error': 'Exception: boom'
BaseExceptionLine == TextLine(TRUE, <<"Exception">>)

\* the lines of the drawn texts
DiagnosticLines ==
    { TracebackHeader, BlankLine,
      FrameLine(script_path, 1), FrameLine(script_path, 2), FrameLine("/w/lib.py", 1),
      FrameLine("<frozen importlib._bootstrap>", 1),
      FrameLine("/usr/lib/python3.11/json/decoder.py", 1),
      TextLine(TRUE, <<"KeyError">>),
      TextLine(TRUE, <<"app", "errors", "CustomDomainError">>),
      BaseExceptionLine }

InitParse ==
    /\ NoSession
    /\ \E text \in SeqsUpTo(DiagnosticLines, MaxTextLines), target_script \in {script_path, None} :
          probe = [op |-> "parse_error", done |-> FALSE,
                   text |-> text, target_script |-> target_script,
                   result |-> [error_type |-> None, error_file |-> None,
                               error_line |-> NoLine]]

\* parse_error(stderr, target_script)
CallParseError ==
    /\ probe.op = "parse_error"
    /\ ~probe.done
    /\ probe' = [probe EXCEPT !.done = TRUE,
                              !.result = parse_error(probe.text, probe.target_script)]
    /\ UNCHANGED SessionVars

SpecParse == InitParse /\ [][CallParseError]_vars

\* the names of exception classes and of the modules that qualify them
KindNames == {"KeyError", "CustomDomainError", "Exception", "app", "errors"}

\* a line of the shape `kind: message`: a dotted name, a colon, a message
IsKindLine(line) ==
    /\ ~line.blank
    /\ line.colon
    /\ line.head # <<>>
    /\ \A i \in 1..Len(line.head) : line.head[i] \in KindNames

KindLines(text) == {i \in 1..Len(text) : IsKindLine(text[i])}

\* the final segment of the kind of a line
FinalSegment(line) == line.head[Len(line.head)]

ParseDone == probe.op = "parse_error" /\ probe.done

\* C23 (as claimed): the failure class is the final segment of the kind of
\* the last line of the shape `kind: message`; it is never taken from an
\* earlier line when a later line of that shape exists.
C23_ClassFromLastKindLine ==
    ParseDone =>
        IF KindLines(probe.text) = {}
        THEN probe.result.error_type = None
        ELSE probe.result.error_type = FinalSegment(probe.text[Max(KindLines(probe.text))])

\* what holds: the class is taken from the last such line whose kind is
\* registered or ends in 'Error'; lines with another kind are passed over
C23_ClassFromLastErrorLine ==
    ParseDone =>
        LET errs == {i \in KindLines(probe.text) :
                        \/ FinalSegment(probe.text[i]) \in DOMAIN ERROR_DATABASE
                        \/ EndsWithError(FinalSegment(probe.text[i]))}
        IN  IF errs = {}
            THEN probe.result.error_type = None
            ELSE probe.result.error_type = FinalSegment(probe.text[Max(errs)])

(***************************************************************************)
(* The frame parse_error returns (C24).                                    *)
(***************************************************************************)
\* the lines of the text that name a frame outside the runtime's own files
FrameLines(text) ==
    {i \in 1..Len(text) :
        /\ text[i].frame # <<>>
        /\ ~StartsWithAngle(text[i].frame[1].file)
        /\ ~InLibPython(text[i].frame[1].file)}

\* those of the target script
TargetFrameLines(text) ==
    {i \in FrameLines(text) : abspath(text[i].frame[1].file) = abspath(script_path)}

\* the location returned is the frame of line i of the text
ReturnsFrameOf(i) ==
    /\ probe.result.error_file = probe.text[i].frame[1].file
    /\ probe.result.error_line = probe.text[i].frame[1].line

ReturnsNoFrame == probe.result.error_file = None /\ probe.result.error_line = NoLine

FilterSupplied == probe.target_script # None

\* C24 (as claimed): with a filter the location is the innermost frame of the
\* target file, without one the innermost frame overall, runtime-internal
\* frames excluded; with a filter a frame of another file is never returned.
C24_NeverAnotherFile ==
    ParseDone =>
        /\ (FilterSupplied /\ TargetFrameLines(probe.text) # {}) =>
               ReturnsFrameOf(Max(TargetFrameLines(probe.text)))
        /\ (~FilterSupplied /\ FrameLines(probe.text) # {}) =>
               ReturnsFrameOf(Max(FrameLines(probe.text)))
        /\ FrameLines(probe.text) = {} => ReturnsNoFrame
        /\ FilterSupplied =>
               \/ ReturnsNoFrame
               \/ abspath(probe.result.error_file) = abspath(script_path)

\* C24 (amended): with a filter and a frame of the target file in the text
\* the location is the innermost frame of the target file; in every other
\* case it is the innermost frame overall (with a filter, then, a frame of
\* another file), and none when the text holds no frame outside the runtime.
C24_InnermostFrame ==
    ParseDone =>
        IF FilterSupplied /\ TargetFrameLines(probe.text) # {}
        THEN ReturnsFrameOf(Max(TargetFrameLines(probe.text)))
        ELSE IF FrameLines(probe.text) # {}
        THEN ReturnsFrameOf(Max(FrameLines(probe.text)))
        ELSE ReturnsNoFrame

\* two frames of the target, then a frame of another file and one of the
\* runtime: the second frame of the target is returned
C24_Witness ==
    /\ ParseDone
    /\ FilterSupplied
    /\ probe.text = << FrameLine(script_path, 1), FrameLine(script_path, 2),
                       FrameLine("/w/lib.py", 1),
                       FrameLine("/usr/lib/python3.11/json/decoder.py", 1) >>
    /\ probe.result.error_file = script_path
    /\ probe.result.error_line = 2

(***************************************************************************)
(* The cycle test and the rule lookup (C25).                               *)
(***************************************************************************)
\* the step prints the cycle report / a report of the Unrecoverable outcome
ReportsCycled == "LOOP_DETECTED" \in printed' /\ "LOOP_DETECTED" \notin printed
ReportsUnrecoverable ==
    (printed' \ printed) \cap UnrecoverableTags # {} /\ "LOOP_DETECTED" \notin printed'

\* C25 (as claimed): the session ends Cycled only when a rule matches the
\* failing line; a recorded descriptor whose line no rule matches ends the
\* session Unrecoverable, not Cycled.
C25_CycledOnlyWithMatchingRule ==
    [][/\ (pc = "ran" /\ DescriptorRecorded /\ NoRuleMatches) =>
              (pc' = "after" /\ ReportsUnrecoverable)
       /\ ReportsCycled => ~NoRuleMatches]_vars

\* C25 (amended): an iteration ends the session Cycled exactly when the
\* descriptor of its diagnostic is recorded, whether or not a rule matches
\* the failing line: with a recorded descriptor and no matching rule the
\* report is the cycle report alone, fix_error is not called and nothing is
\* written; [FAILED] for a line no rule matches needs an unrecorded
\* descriptor.
C25_CycledWheneverRecorded ==
    [][pc = "ran" =>
          /\ ReportsCycled <=> DescriptorRecorded
          /\ (DescriptorRecorded /\ NoRuleMatches) =>
                /\ pc' = "after"
                /\ printed' = printed \cup {"LOOP_DETECTED"}
                /\ log' = log
                /\ fs' = fs
          /\ (NoRuleMatches /\ ~DescriptorRecorded) =>
                (pc' = "after" /\ "FAILED" \in printed')]_vars

\* a session that ended Cycled on a line that its own patch left without a
\* matching rule
C25_Witness ==
    /\ pc = "done"
    /\ DescriptorRecorded
    /\ NoRuleMatches
    /\ printed \cap (UnrecoverableTags \cup {"LOOP_DETECTED"}) = {"LOOP_DETECTED"}
    /\ Len(fixed_errors) = 1
    /\ fs[TargetFile] # orig

(***************************************************************************)
(* The report of the backup at the end of the session (C26).               *)
(***************************************************************************)
\* main printed "[RESTORE] Use <backup_path> to restore original"
BackupReported == "RESTORE" \in printed

\* C26 (as claimed): a session that ends Unrecoverable, Cycled or at the
\* iteration limit reports the backup for restoration when it ends.
C26_BackupReportedUnlessConverged ==
    (pc = "done" /\ Outcomes \cap {"Unrecoverable", "Cycled", "IterationLimitReached"} # {})
        => BackupReported

\* what the code does: the backup is reported exactly when the loop counter
\* has reached max_iterations, whatever ended the loop
C26_BackupReportedAtLimitOnly ==
    pc = "done" => (BackupReported <=> iteration >= max_iterations)

(***************************************************************************)
(* The content a patch is computed on (C27).                               *)
(***************************************************************************)
\* the diagnostic main holds is the one a run of the file on disk produces
DiagnosticOfFileOnDisk ==
    \E run \in {Execute(fs[TargetFile])} :
        /\ returncode = run.rc
        /\ stderr = run_and_capture_error(run.rc, run.err)

\* C27: from the run of an iteration to its fix_error call the file on disk
\* is the content that produced the diagnostic; a patch is computed from
\* that content and written to the target alone; and from the write to the
\* next run the file is not changed, so the next run executes exactly what
\* the patch wrote.
C27_PatchOnDiagnosedContent ==
    /\ [](pc = "ran" => DiagnosticOfFileOnDisk)
    /\ [][(pc = "ran" /\ fs' # fs) =>
             /\ FixResult.ok
             /\ fs' = [fs EXCEPT ![TargetFile] = FixResult.content]
             /\ pc' = "loop"]_vars
    /\ [][pc = "loop" => fs' = fs]_vars

\* the second patch of a session has been written: it answered the
\* diagnostic of the run of the content the first patch wrote
C27_Witness ==
    /\ pc = "ran"
    /\ iteration = 3
    /\ Len(fixed_errors) = 2
    /\ fixed_errors[1][1] = "UnboundLocalError"
    /\ fs[TargetFile] # fs[BackupFile]
    /\ Truthy(stderr)
    /\ DiagnosticOfFileOnDisk

(***************************************************************************)
(* The files a session writes (C28).                                       *)
(***************************************************************************)
\* the innermost frame of the diagnostic, runtime frames aside, lies in a
\* file other than the target script
InnermostFrameElsewhere ==
    /\ Truthy(stderr)
    /\ FrameLines(stderr.lines) # {}
    /\ abspath(stderr.lines[Max(FrameLines(stderr.lines))].frame[1].file) # TargetFile

\* the diagnostic has frames, and none of the target script
NoFrameInTarget ==
    /\ Truthy(stderr)
    /\ FrameLines(stderr.lines) # {}
    /\ TargetFrameLines(stderr.lines) = {}

\* the step calls fix_error
CallsFixError == Len(log') > Len(log) /\ log'[Len(log) + 1].op = "fix"

OtherFilesKept == \A f \in Files \ {TargetFile} : fs'[f] = fs[f]

PatchRecorded == Len(fixed_errors') = Len(fixed_errors) + 1

\* C29 (as claimed): when fix_error returns True and the descriptor is
\* recorded, the file on disk differs from what it was before the call.
C29_RecordedPatchChangesFile ==
    [][PatchRecorded => fs'[TargetFile] # fs[TargetFile]]_vars

\* what holds: a recorded patch leaves the file as it was only where the
\* rule applied is the first rule of ZeroDivisionError, whose trigger accepts
\* a division by 0 written without the space its replacement looks for
C29_UnchangedOnlyByDivZeroRule ==
    [][(PatchRecorded /\ fs'[TargetFile] = fs[TargetFile]) =>
          /\ Parsed.error_type = "ZeroDivisionError"
          /\ FixResult.pattern = 1
          /\ DetectDivZero(fs[TargetFile][Parsed.error_line].txt)
          /\ ReplaceDivZero(fs[TargetFile][Parsed.error_line].txt)
                = fs[TargetFile][Parsed.error_line].txt]_vars

(***************************************************************************)
(* The backup over several sessions on one file (C30).                     *)
(***************************************************************************)
\* C30: the start of every session copies the target over the backup, also
\* over a backup an earlier session left; from then on the backup holds the
\* target as it was at the start of the most recent session, whether or not
\* that session applies a patch.
C30_BackupOfLatestSession ==
    /\ [][(probe.op = "session" /\ pc = "start") =>
             /\ fs'[BackupFile] = fs[TargetFile]
             /\ fs'[TargetFile] = fs[TargetFile]]_vars
    /\ [](pc # "start" => fs[BackupFile] = orig)

\* a second session that applied no patch has ended: the backup is the file
\* the first session left after its patches, a script that runs clean
C30_Witness ==
    /\ probe.op = "session"
    /\ probe.n = 2
    /\ probe.patches >= 1
    /\ pc = "done"
    /\ fixed_errors = <<>>
    /\ fs[BackupFile] = fs[TargetFile]
    /\ Interpret(fs[BackupFile]).rc = 0

====
